---- MODULE Spec2Model ----
(***************************************************************************)
(* Model of the two algorithmic components of local-stt-mcp                *)
(* (mcp-server/src/whisper/integration.ts):                                *)
(*   - DiarizationAlignment   (alignTranscriptionWithSpeakers and helpers) *)
(*   - TranscriptionAssembler (assembleTranscriptions and helpers)         *)
(* and of their callers: the transcribe_long handler with                  *)
(* AudioConverter.splitAudio and WhisperIntegration.transcribe, and the    *)
(* Python detection of DiarizationPythonManager.                           *)
(*                                                                         *)
(* Times are integers in units of 0.1 s, so the default thresholds of the  *)
(* source (0.1 s, 1.0 s) are the integers 1 and 10.  A confidence is the   *)
(* exact quotient num/den, kept as a record and compared by cross          *)
(* multiplication.  A string is a sequence of one-character strings.       *)
(***************************************************************************)
EXTENDS Integers, Sequences, FiniteSets, TLC

VARIABLES
    pc,             \* "ready" before the call, "done" after it; the
                    \* position in the handler for the multi-step calls
    transcription,  \* aligner input: [text, hasSegments, segments]
    diarization,    \* aligner input: sequence of [start, end, speaker]
    options,        \* aligner input: AlignmentOptions
    transcriptionSegments,  \* aligner: the local list the outer loop runs over
    aligned,        \* aligner: the local list `aligned` before the merge pass
    result,         \* aligner: the returned SpeakerSegment list
    written,        \* aligner: the objects whose fields the call assigned
    rawLabel,       \* normalizeSpeakerLabel: its argument
    normLabel,      \* normalizeSpeakerLabel: its return value
    chunks,         \* assembler input: the caller's ChunkTranscription array
    callerChunks,   \* assembler: the caller's array as it was before the call
    asmOptions,     \* assembler input: AssemblyOptions
    assembled,      \* assembler: the returned TranscriptionResult
    asmSteps,       \* assembler: per loop iteration, the segments assembled
                    \* before it and the segments it appended
    tsSeconds,      \* formatTimestamp: its argument, in milliseconds
    tsSRT,          \* formatTimestamp: useSRTFormat
    tsOut,          \* TranscriptionAssembler.formatTimestamp: the string
    tsOutAlign,     \* DiarizationAlignment.formatTimestamp: the string
    fmtResult,      \* formatOutput: the transcript, segment times in ms
    fmtFormat,      \* formatOutput: the format name
    fmtOutput,      \* formatOutput: the returned string
    longArgs,       \* transcribe_long: the arguments of the call
    audioDuration,  \* transcribe_long: audioInfo.duration
    processedAudioPath, \* transcribe_long: the file handed to splitAudio
    tempFiles,      \* transcribe_long: the local list tempFiles
    audioChunks,    \* transcribe_long: the local list audioChunks
    chunkTranscriptions, \* transcribe_long: the local list of chunk results
    assembledResult,     \* transcribe_long: what the assembler returned
    formattedOutput,     \* transcribe_long: what formatOutput returned
    splitStartTime, \* splitAudio: the local startTime
    splitChunkIndex,     \* splitAudio: the local chunkIndex
    outputPaths,    \* splitAudio: the local list outputPaths
    ssArgs,         \* splitAudio: the -ss argument of each chunk it wrote
    fsWritten,      \* the files ffmpeg has written during the call
    fsUnlinked,     \* the files unlinkSync was called on
    pyWorks,        \* the executables for which `--version` exits with 0
    pyPackages,     \* the executables for which the import script succeeds
    envPythonExecutable, \* process.env.PYTHON_EXECUTABLE
    diarizationAvailable, \* what isAvailable returned
    pythonExecutable,    \* DiarizationPythonManager.pythonExecutable
    initialized,    \* DiarizationPythonManager.initialized
    setupError      \* initialize threw a DiarizationError SETUP_ERROR

alignVars == <<transcription, diarization, options, transcriptionSegments,
               aligned, result, written>>
labelVars == <<rawLabel, normLabel>>
asmVars   == <<chunks, callerChunks, asmOptions, assembled, asmSteps>>
stampVars == <<tsSeconds, tsSRT, tsOut, tsOutAlign>>
fmtVars   == <<fmtResult, fmtFormat, fmtOutput>>
longVars  == <<longArgs, audioDuration, processedAudioPath, tempFiles,
               audioChunks, chunkTranscriptions, assembledResult,
               formattedOutput, splitStartTime, splitChunkIndex, outputPaths,
               ssArgs, fsWritten, fsUnlinked>>
pyVars    == <<pyWorks, pyPackages, envPythonExecutable, diarizationAvailable,
               pythonExecutable, initialized, setupError>>
vars      == <<pc, alignVars, labelVars, asmVars, stampVars, fmtVars,
               longVars, pyVars>>

----------------------------------------------------------------------------
(* Bounds of the model *)

MaxT == 2          \* times of transcription segments and spans are 0..MaxT
MaxSegs == 2       \* transcription segments per call
MaxSpans == 1      \* diarization spans per call
MaxLabelLen == 4   \* characters of a raw speaker id
MaxChunks == 2     \* chunks per call of the assembler
MaxTotalSegs == 3  \* segments over all the chunks of a call
MaxStride == 1     \* chunk i starts at (i - 1) * stride, stride in 0..MaxStride
MaxOverlap == 2    \* overlapSeconds is in 0..MaxOverlap
MaxLongLen == 7    \* characters of a long raw speaker id without a digit
MaxMillis == 12    \* milliseconds within a second are 0..MaxMillis, and 999
MaxCues == 2       \* segments of a transcript handed to formatOutput
MaxLines == 21     \* lines of a chunk's text
MaxChunkDuration == 3  \* chunk durations are 60 s .. MaxChunkDuration * 30 s
MaxDuration == 6   \* audio durations are 30 s .. MaxDuration * 30 s

----------------------------------------------------------------------------
(* Strings *)

Digits == <<"0", "1", "2", "3", "4", "5", "6", "7", "8", "9">>

IsDigit(c) == \E d \in 1..10 : Digits[d] = c

DigitValue(c) == (CHOOSE d \in 1..10 : Digits[d] = c) - 1

SpeakerPrefix == <<"s", "p", "e", "a", "k", "e", "r">>

\* integration.ts:588, the label given to a segment without a speaker
UnknownSpeaker == SpeakerPrefix \o <<"_", "u", "n", "k", "n", "o", "w", "n">>

\* String.prototype.charCodeAt for the characters the model uses
CharCode(c) ==
    CASE c = "_" -> 95
      [] c = "A" -> 65
      [] c = "B" -> 66
      [] c = "S" -> 83
      [] c = "x" -> 120
      [] IsDigit(c) -> 48 + DigitValue(c)
      [] OTHER -> 63

\* Number.prototype.toString for an integer
RECURSIVE ToDecimal(_)
ToDecimal(n) ==
    IF n < 0 THEN <<"-">> \o ToDecimal(0 - n)
    ELSE IF n < 10 THEN <<Digits[n + 1]>>
    ELSE ToDecimal(n \div 10) \o <<Digits[(n % 10) + 1]>>

\* String.prototype.padStart
RECURSIVE PadStart(_, _, _)
PadStart(s, len, c) ==
    IF Len(s) >= len THEN s ELSE PadStart(<<c>> \o s, len, c)

\* parseInt of a string of decimal digits
RECURSIVE ParseInt(_)
ParseInt(s) ==
    IF s = <<>> THEN 0
    ELSE 10 * ParseInt(SubSeq(s, 1, Len(s) - 1)) + DigitValue(s[Len(s)])

----------------------------------------------------------------------------
(* DiarizationAlignment.hashString, integration.ts:631-639.  The 32-bit    *)
(* accumulator is kept as two 16-bit limbs [hi, lo] (its two's complement  *)
(* bit pattern), so that no intermediate value leaves the integer range.   *)

Limb == 65536

\* one round: hash = ((hash << 5) - hash) + char; hash = hash & hash
HashRound(h, code) ==
    LET lo == 31 * h.lo + code
        hi == 31 * h.hi + (lo \div Limb)
    IN  [hi |-> hi % Limb, lo |-> lo % Limb]

RECURSIVE HashBits(_)
HashBits(str) ==
    IF str = <<>> THEN [hi |-> 0, lo |-> 0]
    ELSE HashRound(HashBits(SubSeq(str, 1, Len(str) - 1)),
                   CharCode(str[Len(str)]))

\* the accumulator is negative when bit 31 is set
HashIsNegative(h) == h.hi >= Limb \div 2

\* hash % 10 without Math.abs: the remainder has the sign of the accumulator
HashAbsMod10_NoAbs(h) ==
    IF HashIsNegative(h)
    THEN 0 - ((((Limb - 1 - h.hi) % 10) * (Limb % 10) + (Limb - h.lo)) % 10)
    ELSE ((h.hi % 10) * (Limb % 10) + h.lo) % 10

\* (Math.abs(hash) % 10): of the magnitude 2^32 - bits when negative
HashAbsMod10(h) ==
    IF HashIsNegative(h)
    THEN (((Limb - 1 - h.hi) % 10) * (Limb % 10) + (Limb - h.lo)) % 10
    ELSE ((h.hi % 10) * (Limb % 10) + h.lo) % 10

hashString(str) == HashBits(str)

----------------------------------------------------------------------------
(* DiarizationAlignment.normalizeSpeakerLabel, integration.ts:614-626 *)

\* label.match(/(\d+)/): the index of the first digit, 0 when there is none
FirstDigit(label) ==
    IF \E i \in 1..Len(label) : IsDigit(label[i])
    THEN CHOOSE i \in 1..Len(label) :
            /\ IsDigit(label[i])
            /\ \A j \in 1..(i - 1) : ~IsDigit(label[j])
    ELSE 0

\* the greedy \d+ : the last index of the run of digits starting at i
RunEnd(label, i) ==
    CHOOSE e \in i..Len(label) :
        /\ \A j \in i..e : IsDigit(label[j])
        /\ (e = Len(label) \/ ~IsDigit(label[e + 1]))

RegexDigits(label) ==
    LET i == FirstDigit(label) IN SubSeq(label, i, RunEnd(label, i))

\* normalizeSpeakerLabel without parseInt: the digits as they stand
normalizeSpeakerLabel_NoParse(label) ==
    IF FirstDigit(label) # 0
    THEN SpeakerPrefix \o PadStart(RegexDigits(label), 2, "0")
    ELSE SpeakerPrefix \o
         PadStart(ToDecimal(HashAbsMod10(hashString(label)) + 1), 2, "0")

normalizeSpeakerLabel(label) ==
    IF FirstDigit(label) # 0
    THEN SpeakerPrefix \o PadStart(ToDecimal(ParseInt(RegexDigits(label))), 2, "0")
    ELSE SpeakerPrefix \o
         PadStart(ToDecimal(HashAbsMod10(hashString(label)) + 1), 2, "0")

----------------------------------------------------------------------------
(* Confidences: exact quotients *)

Ratio(n, d) == [num |-> n, den |-> d]

Zero == Ratio(0, 1)

RatLeq(a, b) == a.num * b.den <= b.num * a.den

RatEq(a, b) == a.num * b.den = b.num * a.den

\* Math.min on two confidences
RatMin(a, b) == IF RatLeq(a, b) THEN a ELSE b

----------------------------------------------------------------------------
(* DiarizationAlignment, integration.ts:535-674 *)

Max(a, b) == IF a >= b THEN a ELSE b

Min(a, b) == IF a <= b THEN a ELSE b

\* calculateOverlap taking the end of the second interval for overlapEnd
calculateOverlap_NoMin(seg1, seg2) ==
    LET overlapStart == Max(seg1.start, seg2.start)
        overlapEnd   == seg2.end
    IN  Max(0, overlapEnd - overlapStart)

\* calculateOverlap, integration.ts:602-609
calculateOverlap(seg1, seg2) ==
    LET overlapStart == Max(seg1.start, seg2.start)
        overlapEnd   == Min(seg1.end, seg2.end)
    IN  Max(0, overlapEnd - overlapStart)

\* the inner loop replacing bestMatch on an equal overlap
RECURSIVE BestMatch_LastWins(_, _, _)
BestMatch_LastWins(transSegment, diar, n) ==
    IF n = 0 THEN [best |-> 0, maxOverlap |-> 0]
    ELSE LET prev    == BestMatch_LastWins(transSegment, diar, n - 1)
             overlap == calculateOverlap(transSegment, diar[n])
         IN  IF overlap >= prev.maxOverlap
             THEN [best |-> n, maxOverlap |-> overlap]
             ELSE prev

\* the inner loop, integration.ts:561-570: the index of bestMatch (0 for
\* null) and maxOverlap after the first n spans
RECURSIVE BestMatch(_, _, _)
BestMatch(transSegment, diar, n) ==
    IF n = 0 THEN [best |-> 0, maxOverlap |-> 0]
    ELSE LET prev    == BestMatch(transSegment, diar, n - 1)
             overlap == calculateOverlap(transSegment, diar[n])
         IN  IF overlap > prev.maxOverlap
             THEN [best |-> n, maxOverlap |-> overlap]
             ELSE prev

\* the loop body keeping the label of a match at or below overlapThreshold
AlignSegment_WeakMatchKeepsLabel(transSegment, diar, opts) ==
    LET m == BestMatch(transSegment, diar, Len(diar))
    IN  IF m.best # 0 /\ m.maxOverlap > opts.overlapThreshold
        THEN LET confidence ==
                     Ratio(m.maxOverlap, transSegment.end - transSegment.start)
             IN  IF RatLeq(opts.confidenceThreshold, confidence)
                 THEN << [text       |-> transSegment.text,
                          speaker    |-> normalizeSpeakerLabel(diar[m.best].speaker),
                          start      |-> transSegment.start,
                          end        |-> transSegment.end,
                          confidence |-> confidence] >>
                 ELSE << >>
        ELSE << [text       |-> transSegment.text,
                 speaker    |-> IF m.best # 0
                                THEN normalizeSpeakerLabel(diar[m.best].speaker)
                                ELSE UnknownSpeaker,
                 start      |-> transSegment.start,
                 end        |-> transSegment.end,
                 confidence |-> Zero] >>

\* the loop body pushing nothing for a segment without a match
AlignSegment_SkipUnmatched(transSegment, diar, opts) ==
    LET m == BestMatch(transSegment, diar, Len(diar))
    IN  IF m.best # 0 /\ m.maxOverlap > opts.overlapThreshold
        THEN LET confidence ==
                     Ratio(m.maxOverlap, transSegment.end - transSegment.start)
             IN  IF RatLeq(opts.confidenceThreshold, confidence)
                 THEN << [text       |-> transSegment.text,
                          speaker    |-> normalizeSpeakerLabel(diar[m.best].speaker),
                          start      |-> transSegment.start,
                          end        |-> transSegment.end,
                          confidence |-> confidence] >>
                 ELSE << >>
        ELSE << >>

\* the body of the outer loop, integration.ts:572-593: what one
\* transcription segment pushes onto `aligned`
AlignSegment(transSegment, diar, opts) ==
    LET m == BestMatch(transSegment, diar, Len(diar))
    IN  IF m.best # 0 /\ m.maxOverlap > opts.overlapThreshold
        THEN LET confidence ==
                     Ratio(m.maxOverlap, transSegment.end - transSegment.start)
             IN  IF RatLeq(opts.confidenceThreshold, confidence)
                 THEN << [text       |-> transSegment.text,
                          speaker    |-> normalizeSpeakerLabel(diar[m.best].speaker),
                          start      |-> transSegment.start,
                          end        |-> transSegment.end,
                          confidence |-> confidence] >>
                 ELSE << >>
        ELSE << [text       |-> transSegment.text,
                 speaker    |-> UnknownSpeaker,
                 start      |-> transSegment.start,
                 end        |-> transSegment.end,
                 confidence |-> Zero] >>

\* the outer loop putting each entry at the front of `aligned`
RECURSIVE AlignLoop_Unshift(_, _, _, _)
AlignLoop_Unshift(segs, diar, opts, n) ==
    IF n = 0 THEN << >>
    ELSE AlignSegment(segs[n], diar, opts) \o AlignLoop_Unshift(segs, diar, opts, n - 1)

\* the outer loop, integration.ts:559-594
RECURSIVE AlignLoop(_, _, _, _)
AlignLoop(segs, diar, opts, n) ==
    IF n = 0 THEN << >>
    ELSE AlignLoop(segs, diar, opts, n - 1) \o AlignSegment(segs[n], diar, opts)

\* Math.max(20, ...diarization.map(d => d.end)), integration.ts:552
MinPseudoEnd == 200

\* the end of the last span in place of the greatest
MaxEnd_LastSpan(diar, n) ==
    IF n = 0 THEN MinPseudoEnd ELSE Max(MinPseudoEnd, diar[n].end)

RECURSIVE MaxEnd(_, _)
MaxEnd(diar, n) ==
    IF n = 0 THEN MinPseudoEnd ELSE Max(MaxEnd(diar, n - 1), diar[n].end)

\* integration.ts:547-555
TranscriptionSegments(trans, diar) ==
    IF trans.hasSegments /\ Len(trans.segments) > 0
    THEN trans.segments
    ELSE << [start |-> 0, end |-> MaxEnd(diar, Len(diar)), text |-> trans.text] >>

\* the merge test measuring the gap from the start of the accumulator
ShouldMerge_FromStart(current, segment, mergeThreshold) ==
    /\ current.speaker = segment.speaker
    /\ segment.start - current.start < mergeThreshold

\* the merge test, integration.ts:654-656
ShouldMerge(current, segment, mergeThreshold) ==
    /\ current.speaker = segment.speaker
    /\ segment.start - current.end < mergeThreshold

\* the merge, integration.ts:658-660
MergeInto(current, segment) ==
    [current EXCEPT !.text = current.text \o <<" ">> \o segment.text,
                    !.end = segment.end,
                    !.confidence = RatMin(current.confidence, segment.confidence)]

\* postProcessAlignment, integration.ts:644-674: the loop state after the
\* first n segments; `current` is the last element of acc (null: acc empty)
RECURSIVE MergeLoop(_, _, _)
MergeLoop(segments, mergeThreshold, n) ==
    IF n = 0 THEN << >>
    ELSE LET acc == MergeLoop(segments, mergeThreshold, n - 1)
             segment == segments[n]
         IN  IF acc # << >> /\ ShouldMerge(acc[Len(acc)], segment, mergeThreshold)
             THEN [acc EXCEPT ![Len(acc)] = MergeInto(acc[Len(acc)], segment)]
             ELSE Append(acc, segment)

postProcessAlignment(segments, mergeThreshold) ==
    MergeLoop(segments, mergeThreshold, Len(segments))

\* The objects of a call.  A caller's object is named by where the caller
\* holds it; an object the call constructs is named by the expression that
\* constructs it.
CallerSegment(i) == [kind |-> "transcription.segments", index |-> i]

CallerSpan(j) == [kind |-> "diarization", index |-> j]

\* the loop body passing the transcription segment itself on to `aligned`
PushedObject_Reused(i) == CallerSegment(i)

\* what the loop body pushes for segment i: a new object literal,
\* integration.ts:575-581, 585-591
PushedObject(i) == [kind |-> "literal", index |-> i]

\* current = { ...segment }, integration.ts:665: a new object
CopiedObject(o) == [kind |-> "copy", index |-> o.index]

\* the objects of the entries of `aligned`, integration.ts:559-594
RECURSIVE PushedObjects(_, _, _, _)
PushedObjects(segs, diar, opts, n) ==
    IF n = 0 THEN << >>
    ELSE PushedObjects(segs, diar, opts, n - 1) \o
         (IF AlignSegment(segs[n], diar, opts) = << >> THEN << >>
          ELSE <<PushedObject(n)>>)

\* the object `current` refers to after n >= 1 iterations of the merge
\* loop, integration.ts:653-667: the one lines 658-660 assign to
RECURSIVE MergeTarget(_, _, _, _)
MergeTarget(segments, objs, mergeThreshold, n) ==
    LET acc == MergeLoop(segments, mergeThreshold, n - 1)
    IN  IF acc # << >> /\ ShouldMerge(acc[Len(acc)], segments[n], mergeThreshold)
        THEN MergeTarget(segments, objs, mergeThreshold, n - 1)
        ELSE CopiedObject(objs[n])

\* every object a call assigns a field of: the entries it builds and the
\* accumulators of the merge loop
WrittenObjects(trans, diar, opts) ==
    LET segs     == TranscriptionSegments(trans, diar)
        segments == AlignLoop(segs, diar, opts, Len(segs))
        objs     == PushedObjects(segs, diar, opts, Len(segs))
    IN  {objs[k] : k \in 1..Len(objs)} \cup
        {MergeTarget(segments, objs, opts.mergeThreshold, k) : k \in 1..Len(segments)}

AlignedBeforeMerge(trans, diar, opts) ==
    LET segs == TranscriptionSegments(trans, diar)
    IN  AlignLoop(segs, diar, opts, Len(segs))

alignTranscriptionWithSpeakers(trans, diar, opts) ==
    postProcessAlignment(AlignedBeforeMerge(trans, diar, opts), opts.mergeThreshold)

----------------------------------------------------------------------------
(* Inputs of the aligner *)

Words == <<"w1", "w2", "w3", "w4", "w5">>

FullText == <<"full">>

Times == 0..MaxT

\* transcription segments (types/index.ts:68-72) of positive duration; the
\* i-th segment of a list carries the i-th word
SegShapes == {s \in [start : Times, end : Times] : s.start < s.end}

SegLists ==
    UNION {[1..n -> SegShapes] : n \in 1..MaxSegs}

WithTextFrom(shapes, k) ==
    [i \in 1..Len(shapes) |->
        [start |-> shapes[i].start, end |-> shapes[i].end, text |-> <<Words[k + i]>>]]

WithText(shapes) == WithTextFrom(shapes, 0)

\* transcriptions with a non-empty segment list
SegmentedTranscriptions ==
    {[text |-> FullText, hasSegments |-> TRUE, segments |-> WithText(l)] :
        l \in SegLists}

\* transcriptions of MaxSegs + 1 segments in ascending start order
OrderedTranscriptions ==
    {[text |-> FullText, hasSegments |-> TRUE, segments |-> WithText(l)] :
        l \in {o \in [1..(MaxSegs + 1) -> SegShapes] :
                  \A i \in 1..MaxSegs : o[i].start <= o[i + 1].start}}

\* transcriptions of one segment
SingleTranscriptions ==
    {[text |-> FullText, hasSegments |-> TRUE, segments |-> WithText(<<s>>)] :
        s \in SegShapes}

\* transcriptions with a segment of no duration (end = start) in the list
PointShapes == {s \in [start : Times, end : Times] : s.start <= s.end}

PointTranscriptions ==
    {[text |-> FullText, hasSegments |-> TRUE, segments |-> WithText(l)] :
        l \in {p \in UNION {[1..n -> PointShapes] : n \in 1..MaxSegs} :
                  \E i \in 1..Len(p) : p[i].start = p[i].end}}

\* transcriptions whose segment list is absent or empty
PlainTranscriptions ==
    {[text |-> FullText, hasSegments |-> h, segments |-> << >>] : h \in BOOLEAN}

RawSpeakers ==
    { <<"S", "_", "0", "0">>, <<"S", "_", "0", "1">> }

\* diarization spans (types/index.ts:143-147), of positive duration
SpanShapes(ends) ==
    {s \in [start : Times, end : ends, speaker : RawSpeakers] : s.start < s.end}

SpanLists(ends) ==
    UNION {[1..n -> SpanShapes(ends)] : n \in 0..MaxSpans}

\* up to MaxSpans + 1 spans, for one segment
ManySpanLists ==
    UNION {[1..n -> SpanShapes(Times)] : n \in 0..(MaxSpans + 1)}

\* a segment of 10 s and two spans that share it 4 s to 6 s, under the
\* default options
TenSecondTranscription ==
    [text |-> <<"hi", " ", "there">>, hasSegments |-> TRUE,
     segments |-> << [start |-> 0, end |-> 100, text |-> <<"hi", " ", "there">>] >>]

TwoSpeakerDiarization ==
    << [start |-> 0, end |-> 40,
        speaker |-> <<"S", "P", "E", "A", "K", "E", "R", "_", "0", "0">>],
       [start |-> 40, end |-> 100,
        speaker |-> <<"S", "P", "E", "A", "K", "E", "R", "_", "0", "1">>] >>

\* ends of spans that reach beyond the 20 s of integration.ts:552
FarTimes == {MinPseudoEnd - 1, MinPseudoEnd + MaxT}

\* the defaults of integration.ts:541-543: 0.1 s, 1.0 s, 0.1
DefaultOptions ==
    [overlapThreshold |-> 1, mergeThreshold |-> 10, confidenceThreshold |-> Ratio(1, 10)]

AlignmentOptions ==
    [overlapThreshold    : {0, 1},
     mergeThreshold      : {0, 10},
     confidenceThreshold : {Ratio(1, 10), Ratio(1, 1)}]

----------------------------------------------------------------------------
(* Text helpers of the assembler: a text is a sequence of characters *)

NL == "\n"

TAB == "\t"

IsSpace(c) == c = " " \/ c = NL \/ c = TAB

\* String.prototype.split('\n')
RECURSIVE SplitLines(_)
SplitLines(text) ==
    IF \E i \in 1..Len(text) : text[i] = NL
    THEN LET i == CHOOSE k \in 1..Len(text) :
                     text[k] = NL /\ \A j \in 1..(k - 1) : text[j] # NL
         IN  <<SubSeq(text, 1, i - 1)>> \o SplitLines(SubSeq(text, i + 1, Len(text)))
    ELSE <<text>>

\* line.trim() is the empty string
IsBlank(line) == \A i \in 1..Len(line) : IsSpace(line[i])

\* Array.prototype.filter(line => line.trim())
RECURSIVE NonBlank(_)
NonBlank(lines) ==
    IF lines = << >> THEN << >>
    ELSE (IF IsBlank(lines[1]) THEN << >> ELSE <<lines[1]>>) \o NonBlank(Tail(lines))

\* Array.prototype.join('\n')
RECURSIVE JoinLines(_)
JoinLines(lines) ==
    IF lines = << >> THEN << >>
    ELSE IF Len(lines) = 1 THEN lines[1]
    ELSE lines[1] \o <<NL>> \o JoinLines(Tail(lines))

\* String.prototype.trim
RECURSIVE Trim(_)
Trim(text) ==
    IF text = << >> THEN text
    ELSE IF IsSpace(text[1]) THEN Trim(Tail(text))
    ELSE IF IsSpace(text[Len(text)]) THEN Trim(SubSeq(text, 1, Len(text) - 1))
    ELSE text

----------------------------------------------------------------------------
(* TranscriptionAssembler, integration.ts:293-453 *)

\* an optional field that is not set
Undefined == "undefined"

\* the result of assembling no chunk, integration.ts:307-313
EmptyResult ==
    [text |-> << >>, hasSegments |-> FALSE, segments |-> << >>,
     language |-> Undefined, model_used |-> "base.en", processing_time |-> 0]

\* the insertion that puts a chunk before the chunks of the same index
RECURSIVE InsertChunk_BeforeEqual(_, _)
InsertChunk_BeforeEqual(sorted, c) ==
    IF sorted = << >> THEN <<c>>
    ELSE IF sorted[Len(sorted)].chunkIndex < c.chunkIndex THEN Append(sorted, c)
    ELSE Append(InsertChunk_BeforeEqual(SubSeq(sorted, 1, Len(sorted) - 1), c),
                sorted[Len(sorted)])

\* chunks.sort((a, b) => a.chunkIndex - b.chunkIndex), integration.ts:320:
\* a stable sort, here by insertion
RECURSIVE InsertChunk(_, _)
InsertChunk(sorted, c) ==
    IF sorted = << >> THEN <<c>>
    ELSE IF sorted[Len(sorted)].chunkIndex <= c.chunkIndex THEN Append(sorted, c)
    ELSE Append(InsertChunk(SubSeq(sorted, 1, Len(sorted) - 1), c), sorted[Len(sorted)])

RECURSIVE SortChunks(_, _)
SortChunks(cs, n) ==
    IF n = 0 THEN << >> ELSE InsertChunk(SortChunks(cs, n - 1), cs[n])

\* adjustSegmentTimestamps moving the start of a segment only
adjustSegmentTimestamps_StartOnly(segments, startOffset) ==
    [i \in 1..Len(segments) |->
        [start |-> segments[i].start + startOffset,
         end   |-> segments[i].end,
         text  |-> segments[i].text]]

\* adjustSegmentTimestamps, integration.ts:393-405
adjustSegmentTimestamps(segments, startOffset) ==
    [i \in 1..Len(segments) |->
        [start |-> segments[i].start + startOffset,
         end   |-> segments[i].end + startOffset,
         text  |-> segments[i].text]]

\* findIndex with the strict test segment.start > overlapCutoffTime
FirstNonOverlapIndex_Strict(newSegments, overlapCutoffTime) ==
    IF \E i \in 1..Len(newSegments) : newSegments[i].start > overlapCutoffTime
    THEN CHOOSE i \in 1..Len(newSegments) :
            /\ newSegments[i].start > overlapCutoffTime
            /\ \A j \in 1..(i - 1) : ~(newSegments[j].start > overlapCutoffTime)
    ELSE 0

\* newSegments.findIndex(segment => segment.start >= overlapCutoffTime),
\* integration.ts:423-425, 1-based, 0 for -1
FirstNonOverlapIndex(newSegments, overlapCutoffTime) ==
    IF \E i \in 1..Len(newSegments) : newSegments[i].start >= overlapCutoffTime
    THEN CHOOSE i \in 1..Len(newSegments) :
            /\ newSegments[i].start >= overlapCutoffTime
            /\ \A j \in 1..(i - 1) : ~(newSegments[j].start >= overlapCutoffTime)
    ELSE 0

\* removeOverlapSegments testing the end of a segment against the cutoff
removeOverlapSegments_ByEnd(newSegments, existingSegments, overlapSeconds) ==
    IF Len(existingSegments) = 0 THEN newSegments
    ELSE LET overlapCutoffTime ==
                 existingSegments[Len(existingSegments)].end - overlapSeconds
         IN  IF \E i \in 1..Len(newSegments) : newSegments[i].end >= overlapCutoffTime
             THEN SubSeq(newSegments,
                         CHOOSE i \in 1..Len(newSegments) :
                            /\ newSegments[i].end >= overlapCutoffTime
                            /\ \A j \in 1..(i - 1) :
                                  newSegments[j].end < overlapCutoffTime,
                         Len(newSegments))
             ELSE << >>

\* removeOverlapSegments, integration.ts:410-433
removeOverlapSegments(newSegments, existingSegments, overlapSeconds) ==
    IF Len(existingSegments) = 0 THEN newSegments
    ELSE LET lastExistingTime  == existingSegments[Len(existingSegments)].end
             overlapCutoffTime == lastExistingTime - overlapSeconds
             firstNonOverlapIndex ==
                 FirstNonOverlapIndex(newSegments, overlapCutoffTime)
         IN  IF firstNonOverlapIndex = 0 THEN << >>
             ELSE SubSeq(newSegments, firstNonOverlapIndex, Len(newSegments))

\* removeOverlapText, integration.ts:439-452; Math.floor(n * 0.1) is n \div 10
removeOverlapText(text) ==
    LET lines == NonBlank(SplitLines(text))
    IN  IF Len(lines) <= 1 THEN text
        ELSE LET linesToRemove == Min(2, Len(lines) \div 10)
             IN  JoinLines(SubSeq(lines, linesToRemove + 1, Len(lines)))

\* the segments one chunk appends, integration.ts:333-354
AppendedSegments(chunk, isFirstChunk, assembledSegments, opts) ==
    IF opts.preserveTimestamps /\ chunk.result.hasSegments
    THEN LET adjustedSegments ==
                 adjustSegmentTimestamps(chunk.result.segments, chunk.startOffset)
         IN  IF opts.removeOverlapDuplicates /\ ~isFirstChunk
             THEN removeOverlapSegments(adjustedSegments, assembledSegments,
                                        opts.overlapSeconds)
             ELSE adjustedSegments
    ELSE << >>

\* chunkText, integration.ts:356-362
ChunkText(chunk, isFirstChunk, opts) ==
    IF opts.removeOverlapDuplicates /\ ~isFirstChunk
    THEN removeOverlapText(chunk.result.text)
    ELSE chunk.result.text

\* the text one chunk contributes, with its separator, integration.ts:356-372
AppendedText(chunk, isFirstChunk, assembledText, opts) ==
    LET chunkText == ChunkText(chunk, isFirstChunk, opts)
        needsSpace == /\ ~isFirstChunk /\ assembledText # << >> /\ chunkText # << >>
                      /\ assembledText[Len(assembledText)] # " "
                      /\ chunkText[1] # " "
    IN  (IF needsSpace THEN <<" ">> ELSE << >>) \o chunkText

\* the loop of integration.ts:326-373 after its first n iterations; `steps`
\* records, per iteration, the list assembled before it and what it appended
RECURSIVE AssembleLoop(_, _, _)
AssembleLoop(sortedChunks, opts, n) ==
    IF n = 0
    THEN [assembledText |-> << >>, assembledSegments |-> << >>,
          totalProcessingTime |-> 0, steps |-> << >>]
    ELSE LET acc   == AssembleLoop(sortedChunks, opts, n - 1)
             chunk == sortedChunks[n]
             added == AppendedSegments(chunk, n = 1, acc.assembledSegments, opts)
         IN  [assembledText |->
                  acc.assembledText \o AppendedText(chunk, n = 1, acc.assembledText, opts),
              assembledSegments |-> acc.assembledSegments \o added,
              totalProcessingTime |->
                  acc.totalProcessingTime + chunk.result.processing_time,
              steps |-> Append(acc.steps,
                               [existing   |-> acc.assembledSegments,
                                added      |-> added,
                                textBefore |-> acc.assembledText,
                                chunkText  |-> ChunkText(chunk, n = 1, opts),
                                textAdded  |->
                                    AppendedText(chunk, n = 1, acc.assembledText, opts)])]

\* integration.ts:375-387
AssembledResult(sortedChunks, opts, loop) ==
    [text            |-> Trim(loop.assembledText),
     model_used      |-> sortedChunks[1].result.model_used,
     processing_time |-> loop.totalProcessingTime,
     language        |-> sortedChunks[1].result.language,
     hasSegments     |-> opts.preserveTimestamps /\ Len(loop.assembledSegments) > 0,
     segments        |-> IF opts.preserveTimestamps /\ Len(loop.assembledSegments) > 0
                         THEN loop.assembledSegments ELSE << >>]

\* what a call that throws leaves in place of a result
ThrownTypeError ==
    [text |-> <<"TypeError">>, hasSegments |-> FALSE, segments |-> << >>,
     language |-> Undefined, model_used |-> Undefined, processing_time |-> 0]

\* assembleTranscriptions without the early return for one chunk
assembleTranscriptions_NoSingleReturn(cs, opts) ==
    IF Len(cs) = 0 THEN EmptyResult
    ELSE LET sortedChunks == SortChunks(cs, Len(cs))
         IN  AssembledResult(sortedChunks, opts,
                             AssembleLoop(sortedChunks, opts, Len(sortedChunks)))

\* assembleTranscriptions without the early return for no chunk: the loop
\* does not run and sortedChunks[0].result throws
assembleTranscriptions_NoEmptyReturn(cs, opts) ==
    IF Len(cs) = 0 THEN ThrownTypeError
    ELSE IF Len(cs) = 1 THEN cs[1].result
    ELSE LET sortedChunks == SortChunks(cs, Len(cs))
         IN  AssembledResult(sortedChunks, opts,
                             AssembleLoop(sortedChunks, opts, Len(sortedChunks)))

\* assembleTranscriptions, integration.ts:297-388
assembleTranscriptions(cs, opts) ==
    IF Len(cs) = 0 THEN EmptyResult
    ELSE IF Len(cs) = 1 THEN cs[1].result
    ELSE LET sortedChunks == SortChunks(cs, Len(cs))
         IN  AssembledResult(sortedChunks, opts,
                             AssembleLoop(sortedChunks, opts, Len(sortedChunks)))

\* the caller's array after the call: sorted in place when the loop is reached
ChunksAfterCall(cs) == IF Len(cs) >= 2 THEN SortChunks(cs, Len(cs)) ELSE cs

\* the iterations of the loop, none on the early returns
LoopSteps(cs, opts) ==
    IF Len(cs) >= 2
    THEN AssembleLoop(SortChunks(cs, Len(cs)), opts, Len(cs)).steps
    ELSE << >>

----------------------------------------------------------------------------
(* Timestamps and output formats, integration.ts:457-521, 733-742.  Here a *)
(* time is an integer number of milliseconds, so that seconds / 3600,      *)
(* seconds % 60 and (seconds % 1) * 1000 are exact.                        *)

\* formatTimestamp taking the minutes of the whole time, not of the hour
formatTimestamp_MinutesOfTotal(seconds, useSRTFormat) ==
    LET hours     == seconds \div 3600000
        minutes   == seconds \div 60000
        secs      == (seconds % 60000) \div 1000
        ms        == seconds % 1000
        separator == IF useSRTFormat THEN "," ELSE "."
    IN  PadStart(ToDecimal(hours), 2, "0") \o <<":">> \o
        PadStart(ToDecimal(minutes), 2, "0") \o <<":">> \o
        PadStart(ToDecimal(secs), 2, "0") \o <<separator>> \o
        PadStart(ToDecimal(ms), 3, "0")

\* TranscriptionAssembler.formatTimestamp, integration.ts:512-521
formatTimestamp(seconds, useSRTFormat) ==
    LET hours     == seconds \div 3600000
        minutes   == (seconds % 3600000) \div 60000
        secs      == (seconds % 60000) \div 1000
        ms        == seconds % 1000
        separator == IF useSRTFormat THEN "," ELSE "."
    IN  PadStart(ToDecimal(hours), 2, "0") \o <<":">> \o
        PadStart(ToDecimal(minutes), 2, "0") \o <<":">> \o
        PadStart(ToDecimal(secs), 2, "0") \o <<separator>> \o
        PadStart(ToDecimal(ms), 3, "0")

\* DiarizationAlignment.formatTimestamp, integration.ts:733-742
DiarizationAlignment_formatTimestamp(seconds, useSRTFormat) ==
    LET hours     == seconds \div 3600000
        minutes   == (seconds % 3600000) \div 60000
        secs      == (seconds % 60000) \div 1000
        ms        == seconds % 1000
        separator == IF useSRTFormat THEN "," ELSE "."
    IN  PadStart(ToDecimal(hours), 2, "0") \o <<":">> \o
        PadStart(ToDecimal(minutes), 2, "0") \o <<":">> \o
        PadStart(ToDecimal(secs), 2, "0") \o <<separator>> \o
        PadStart(ToDecimal(ms), 3, "0")

Arrow == <<" ", "-", "-", ">", " ">>

\* the cue numbered with the index forEach passes, from 0
CueBlock_FromZero(segment, index, useSRTFormat) ==
    ToDecimal(index) \o <<NL>> \o
    formatTimestamp(segment.start, useSRTFormat) \o Arrow \o
    formatTimestamp(segment.end, useSRTFormat) \o <<NL>> \o
    segment.text \o <<NL, NL>>

\* the template of integration.ts:483 and 501; index counts from 0
CueBlock(segment, index, useSRTFormat) ==
    ToDecimal(index + 1) \o <<NL>> \o
    formatTimestamp(segment.start, useSRTFormat) \o Arrow \o
    formatTimestamp(segment.end, useSRTFormat) \o <<NL>> \o
    segment.text \o <<NL, NL>>

\* segments.forEach(...) appending the cues of the first n segments
RECURSIVE CueBlocks(_, _, _)
CueBlocks(segments, useSRTFormat, n) ==
    IF n = 0 THEN << >>
    ELSE CueBlocks(segments, useSRTFormat, n - 1) \o
         CueBlock(segments[n], n - 1, useSRTFormat)

WebVTTHeader == <<"W", "E", "B", "V", "T", "T", NL, NL>>

\* formatAsVTT, integration.ts:474-488
formatAsVTT(res) ==
    IF ~res.hasSegments \/ Len(res.segments) = 0
    THEN WebVTTHeader \o res.text
    ELSE WebVTTHeader \o CueBlocks(res.segments, FALSE, Len(res.segments))

\* formatAsSRT, integration.ts:493-507
formatAsSRT(res) ==
    IF ~res.hasSegments \/ Len(res.segments) = 0
    THEN res.text
    ELSE CueBlocks(res.segments, TRUE, Len(res.segments))

\* formatOutput, integration.ts:457-469, for every format but 'json', which
\* hands the transcript to JSON.stringify
formatOutput(res, format) ==
    CASE format = "vtt" -> formatAsVTT(res)
      [] format = "srt" -> formatAsSRT(res)
      [] OTHER -> res.text

----------------------------------------------------------------------------
(* The aligner as a state machine: one call of                             *)
(* alignTranscriptionWithSpeakers on inputs chosen initially               *)

IdleLabel == /\ rawLabel = << >>
             /\ normLabel = << >>

IdleAsm == /\ chunks = << >>
           /\ callerChunks = << >>
           /\ asmOptions = [overlapSeconds |-> 0, removeOverlapDuplicates |-> FALSE,
                            preserveTimestamps |-> FALSE]
           /\ assembled = EmptyResult
           /\ asmSteps = << >>

IdleStamp == /\ tsSeconds = 0
             /\ tsSRT = FALSE
             /\ tsOut = << >>
             /\ tsOutAlign = << >>

IdleFormat == /\ fmtResult = EmptyResult
              /\ fmtFormat = "txt"
              /\ fmtOutput = << >>

IdleLong ==
    /\ longArgs = [chunk_duration_seconds |-> 0, overlap_seconds |-> 0,
                   auto_cleanup |-> FALSE, audio_ext |-> "wav",
                   word_timestamps |-> FALSE, output_format |-> "txt"]
    /\ audioDuration = 0
    /\ processedAudioPath = [kind |-> "input", n |-> 0]
    /\ tempFiles = << >>
    /\ audioChunks = << >>
    /\ chunkTranscriptions = << >>
    /\ assembledResult = EmptyResult
    /\ formattedOutput = << >>
    /\ splitStartTime = 0
    /\ splitChunkIndex = 0
    /\ outputPaths = << >>
    /\ ssArgs = << >>
    /\ fsWritten = {}
    /\ fsUnlinked = {}

IdlePython ==
    /\ pyWorks = {}
    /\ pyPackages = {}
    /\ envPythonExecutable = Undefined
    /\ diarizationAvailable = FALSE
    /\ pythonExecutable = Undefined
    /\ initialized = FALSE
    /\ setupError = FALSE

IdleAlign == /\ transcription = [text |-> << >>, hasSegments |-> FALSE, segments |-> << >>]
             /\ diarization = << >>
             /\ options = DefaultOptions
             /\ transcriptionSegments = << >>
             /\ aligned = << >>
             /\ result = << >>
             /\ written = {}

InitAlign ==
    /\ pc = "ready"
    /\ \/ /\ transcription \in SegmentedTranscriptions
          /\ diarization \in {l \in SpanLists(Times) : Len(l) <= 1}
          /\ options \in AlignmentOptions
       \/ /\ transcription \in PointTranscriptions
          /\ diarization \in {l \in SpanLists(Times) : Len(l) <= 1}
          /\ options \in {o \in AlignmentOptions :
                             /\ o.overlapThreshold = DefaultOptions.overlapThreshold
                             /\ o.confidenceThreshold = DefaultOptions.confidenceThreshold}
       \/ /\ transcription \in PlainTranscriptions
          /\ diarization \in SpanLists(Times \cup FarTimes)
          /\ options \in AlignmentOptions
       \/ /\ transcription \in OrderedTranscriptions
          /\ diarization \in {l \in SpanLists(Times) : Len(l) <= 1}
          /\ options \in AlignmentOptions
       \/ /\ transcription \in SingleTranscriptions
          /\ diarization \in ManySpanLists
          /\ options \in {o \in AlignmentOptions :
                             /\ o.mergeThreshold = DefaultOptions.mergeThreshold
                             /\ o.confidenceThreshold = DefaultOptions.confidenceThreshold}
       \/ /\ transcription = TenSecondTranscription
          /\ diarization = TwoSpeakerDiarization
          /\ options = DefaultOptions
       \/ /\ transcription \in PlainTranscriptions
          /\ diarization \in
                UNION {[1..n -> SpanShapes(Times \cup FarTimes)] :
                          n \in 0..(MaxSpans + 1)}
          /\ options = DefaultOptions
    /\ transcriptionSegments = << >>
    /\ aligned = << >>
    /\ result = << >>
    /\ written = {}
    /\ IdleLabel
    /\ IdleAsm
    /\ IdleStamp
    /\ IdleFormat
    /\ IdleLong
    /\ IdlePython

Align ==
    /\ pc = "ready"
    /\ transcriptionSegments' = TranscriptionSegments(transcription, diarization)
    /\ aligned' = AlignedBeforeMerge(transcription, diarization, options)
    /\ result' = alignTranscriptionWithSpeakers(transcription, diarization, options)
    /\ written' = WrittenObjects(transcription, diarization, options)
    /\ pc' = "done"
    /\ UNCHANGED <<longVars, pyVars>>
    /\ UNCHANGED <<transcription, diarization, options, labelVars, asmVars,
                   stampVars, fmtVars>>

SpecAlign == InitAlign /\ [][Align]_vars

----------------------------------------------------------------------------
(* normalizeSpeakerLabel as a state machine: one call on a raw speaker id  *)

LabelChars == {"S", "_", "0", "1", "7"}

RawLabels == UNION {[1..n -> LabelChars] : n \in 0..MaxLabelLen}

\* ids without a digit, long enough for the accumulator to pass 2^31, 2^32
LongLabelChars == {"A", "x", "_"}

LongLabels ==
    UNION {[1..n -> LongLabelChars] : n \in (MaxLabelLen + 1)..MaxLongLen}

InitLabel ==
    /\ pc = "ready"
    /\ rawLabel \in RawLabels \cup LongLabels
    /\ normLabel = << >>
    /\ IdleAlign
    /\ IdleAsm
    /\ IdleStamp
    /\ IdleFormat
    /\ IdleLong
    /\ IdlePython

Normalize ==
    /\ pc = "ready"
    /\ normLabel' = normalizeSpeakerLabel(rawLabel)
    /\ pc' = "done"
    /\ UNCHANGED <<longVars, pyVars>>
    /\ UNCHANGED <<rawLabel, alignVars, asmVars, stampVars, fmtVars>>

SpecLabel == InitLabel /\ [][Normalize]_vars

----------------------------------------------------------------------------
(* Inputs of the assembler *)

Languages == <<"en", Undefined, "de", "fr">>

Models == <<"base.en", "small", "medium", "large">>

\* the chunk at position i of the caller's list; its text is the i-th word
Chunk(i, chunkIndex, startOffset, hasSegments, segments) ==
    [chunkIndex  |-> chunkIndex,
     startOffset |-> startOffset,
     result      |-> [text            |-> <<Words[i]>>,
                      hasSegments     |-> hasSegments,
                      segments        |-> segments,
                      language        |-> Languages[i],
                      model_used      |-> Models[i],
                      processing_time |-> i]]

\* chunk-local segments, one time unit long, in any order
ChunkSegShapes == {[start |-> t, end |-> t + 1] : t \in 0..(MaxT - 1)}

RECURSIVE Sum(_, _)
Sum(lens, n) == IF n = 0 THEN 0 ELSE Sum(lens, n - 1) + lens[n]

\* how many segments each of n chunks carries
SegCounts(n) ==
    {lens \in [1..n -> 0..MaxTotalSegs] : Sum(lens, n) <= MaxTotalSegs}

\* Family "timed": chunks in index order, chunk i cut at (i - 1) * stride,
\* carrying the segments flat[..] split according to lens
TimedChunks(lens, flat, stride) ==
    [i \in 1..Len(lens) |->
        Chunk(i, i - 1, (i - 1) * stride, TRUE,
              WithTextFrom(SubSeq(flat, Sum(lens, i - 1) + 1, Sum(lens, i)),
                           Sum(lens, i - 1)))]

TimedChunkLists(stride) ==
    UNION { UNION { {TimedChunks(lens, flat, stride) :
                        flat \in [1..Sum(lens, n) -> ChunkSegShapes]} :
                    lens \in SegCounts(n) } :
            n \in 2..MaxChunks }

\* Family "plain": every option combination; a chunk has no segment list or
\* one segment, any start offset, and the list is in index order or reversed
PlainChunks(n, segs, offs, reversed) ==
    [i \in 1..n |->
        Chunk(i, IF reversed THEN n - i ELSE i - 1, offs[i], segs[i],
              IF segs[i] THEN WithTextFrom(<<[start |-> 0, end |-> 1]>>, i - 1)
              ELSE << >>)]

PlainChunkLists ==
    UNION { {PlainChunks(n, segs, offs, reversed) :
                segs \in [1..n -> BOOLEAN], offs \in [1..n -> 0..MaxStride],
                reversed \in BOOLEAN} :
            n \in 0..MaxChunks }

\* Family "indexed": chunks with any chunkIndex values, equal ones included,
\* in any order; the first carries a segment
IndexedChunkLists ==
    UNION { {[i \in 1..n |->
                 Chunk(i, idx[i], i - 1, i = 1,
                       IF i = 1 THEN WithTextFrom(<<[start |-> 0, end |-> 1]>>, 0)
                       ELSE << >>)] :
                idx \in [1..n -> 0..(n - 1)]} :
            n \in 2..MaxChunks }

\* a chunk without segments that carries the given text
TextChunk(i, text) ==
    [Chunk(i, i - 1, 0, FALSE, << >>) EXCEPT !.result.text = text]

\* Family "joined": two texts with or without whitespace at the join
EdgeTexts ==
    { << >>, <<"a">>, <<"a", " ">>, <<" ", "a">>, <<"a", NL>>, <<NL, "a">>,
      <<"a", TAB>>, <<TAB, "a">> }

JoinedChunkLists ==
    {<<TextChunk(1, s), TextChunk(2, t)>> : s \in EdgeTexts, t \in EdgeTexts}

\* the lines "1" .. "n", with an empty line after line `blank` (none for 0)
\* and a newline at the end or not
RECURSIVE NumberedLines(_, _, _)
NumberedLines(n, blank, newlineAtEnd) ==
    IF n = 0 THEN << >>
    ELSE NumberedLines(n - 1, blank, TRUE) \o ToDecimal(n)
         \o (IF n = blank THEN <<NL>> ELSE << >>)
         \o (IF newlineAtEnd THEN <<NL>> ELSE << >>)

\* Family "lined": a first chunk of one word and a second of 1..MaxLines
\* lines
LinedChunkLists ==
    {<<TextChunk(1, <<"a">>), TextChunk(2, NumberedLines(n, blank, nl))>> :
        n \in 1..MaxLines, blank \in {0, 1, 3}, nl \in BOOLEAN}

\* two chunks of 10 s and 6 s, the second cut at 8 s, 2 s of overlap
OverlappingChunks ==
    << Chunk(1, 0, 0, TRUE,
             << [start |-> 0, end |-> 50, text |-> <<"hello">>],
                [start |-> 50, end |-> 100, text |-> <<"world">>] >>),
       Chunk(2, 1, 80, TRUE,
             << [start |-> 0, end |-> 30, text |-> <<"world2">>],
                [start |-> 30, end |-> 60, text |-> <<"foo">>] >>) >>

\* two chunks whose lists are each ascending and disjoint: the first ends
\* with a segment that starts at `split`, the second is cut 7 s into the
\* first
LateSegmentChunks(split) ==
    << Chunk(1, 0, 0, TRUE,
             << [start |-> 0, end |-> split, text |-> <<"hello">>],
                [start |-> split, end |-> 100, text |-> <<"world">>] >>),
       Chunk(2, 1, 70, TRUE,
             << [start |-> 0, end |-> 30, text |-> <<"world2">>],
                [start |-> 30, end |-> 60, text |-> <<"foo">>] >>) >>

\* overlapSeconds defaults to 30 s, integration.ts:302
DefaultOverlap == 300

InitAsm ==
    /\ pc = "ready"
    /\ \/ /\ \E stride \in 0..MaxStride : chunks \in TimedChunkLists(stride)
          /\ asmOptions \in [overlapSeconds : 0..MaxOverlap,
                             removeOverlapDuplicates : {TRUE},
                             preserveTimestamps : {TRUE}]
       \/ /\ chunks \in PlainChunkLists
          /\ asmOptions \in [overlapSeconds : {0, DefaultOverlap},
                             removeOverlapDuplicates : BOOLEAN,
                             preserveTimestamps : BOOLEAN]
       \/ /\ chunks = OverlappingChunks
          /\ asmOptions \in [overlapSeconds : {20},
                             removeOverlapDuplicates : BOOLEAN,
                             preserveTimestamps : BOOLEAN]
       \/ /\ chunks \in {LateSegmentChunks(split) : split \in {60, 90}}
          /\ asmOptions \in [overlapSeconds : {0, 20, 40},
                             removeOverlapDuplicates : BOOLEAN,
                             preserveTimestamps : BOOLEAN]
       \/ /\ chunks \in IndexedChunkLists
          /\ asmOptions \in [overlapSeconds : {0},
                             removeOverlapDuplicates : BOOLEAN,
                             preserveTimestamps : BOOLEAN]
       \/ /\ chunks \in JoinedChunkLists \cup LinedChunkLists
          /\ asmOptions \in [overlapSeconds : {DefaultOverlap},
                             removeOverlapDuplicates : BOOLEAN,
                             preserveTimestamps : {TRUE}]
    /\ callerChunks = chunks
    /\ assembled = EmptyResult
    /\ asmSteps = << >>
    /\ IdleAlign
    /\ IdleLabel
    /\ IdleStamp
    /\ IdleFormat
    /\ IdleLong
    /\ IdlePython

Assemble ==
    /\ pc = "ready"
    /\ assembled' = assembleTranscriptions(chunks, asmOptions)
    /\ chunks' = ChunksAfterCall(chunks)
    /\ UNCHANGED callerChunks
    /\ asmSteps' = LoopSteps(chunks, asmOptions)
    /\ pc' = "done"
    /\ UNCHANGED <<longVars, pyVars>>
    /\ UNCHANGED <<asmOptions, alignVars, labelVars, stampVars, fmtVars>>

SpecAsm == InitAsm /\ [][Assemble]_vars

----------------------------------------------------------------------------
(* formatTimestamp as a state machine: one call of each of the two copies  *)

\* times up to 100 h, at the edges of every field
StampTimes ==
    {h * 3600000 + m * 60000 + s * 1000 + f :
        h \in {0, 1, 99, 100}, m \in {0, 59}, s \in {0, 59},
        f \in (0..MaxMillis) \cup {999}}

InitStamp ==
    /\ pc = "ready"
    /\ tsSeconds \in StampTimes
    /\ tsSRT \in BOOLEAN
    /\ tsOut = << >>
    /\ tsOutAlign = << >>
    /\ IdleAlign
    /\ IdleLabel
    /\ IdleAsm
    /\ IdleFormat
    /\ IdleLong
    /\ IdlePython

Stamp ==
    /\ pc = "ready"
    /\ tsOut' = formatTimestamp(tsSeconds, tsSRT)
    /\ tsOutAlign' = DiarizationAlignment_formatTimestamp(tsSeconds, tsSRT)
    /\ pc' = "done"
    /\ UNCHANGED <<longVars, pyVars>>
    /\ UNCHANGED <<tsSeconds, tsSRT, alignVars, labelVars, asmVars, fmtVars>>

SpecStamp == InitStamp /\ [][Stamp]_vars

----------------------------------------------------------------------------
(* formatOutput as a state machine: one call on a transcript and a format  *)

\* start and end of a cue: 0 s, 1.5 s and 1 h 1 min 1.001 s
CueTimes == {0, 1500, 3661001}

CueShapes == {s \in [start : CueTimes, end : CueTimes] : s.start <= s.end}

\* transcripts with a segment list, empty or not, and without one
Transcripts ==
    { [text |-> FullText, hasSegments |-> TRUE, segments |-> WithText(l),
       language |-> "en", model_used |-> "base.en", processing_time |-> 1] :
        l \in UNION {[1..n -> CueShapes] : n \in 0..MaxCues} }
    \cup
    { [text |-> t, hasSegments |-> FALSE, segments |-> << >>,
       language |-> Undefined, model_used |-> "base.en", processing_time |-> 0] :
        t \in {<< >>, FullText, <<"w1", NL, "w2">>} }

Formats == {"txt", "vtt", "srt", "md"}

InitFormat ==
    /\ pc = "ready"
    /\ fmtResult \in Transcripts
    /\ fmtFormat \in Formats
    /\ fmtOutput = << >>
    /\ IdleAlign
    /\ IdleLabel
    /\ IdleAsm
    /\ IdleStamp
    /\ IdleLong
    /\ IdlePython

FormatOutput ==
    /\ pc = "ready"
    /\ fmtOutput' = formatOutput(fmtResult, fmtFormat)
    /\ pc' = "done"
    /\ UNCHANGED <<longVars, pyVars>>
    /\ UNCHANGED <<fmtResult, fmtFormat, alignVars, labelVars, asmVars, stampVars>>

SpecFormat == InitFormat /\ [][FormatOutput]_vars

----------------------------------------------------------------------------
(* transcribe_long: one call of the handler, a step at each await. Times    *)
(* are in units of 30 s.                                                    *)

\* chunk_duration_minutes is at least 1 (part_000:11): 60 s
MinChunkDuration == 2

\* overlap_seconds is at most 120 (part_000:12)
MaxOverlapSeconds == 4

\* the loop of splitAudio is followed for at most this many chunks. A loop
\* that advances by a unit or more at every chunk has ended before; a loop
\* that is still running at this chunk advances by zero or less at every
\* chunk and goes on in the code as it did up to here.
SplitCap == MaxDuration + 1

Range(s) == {s[i] : i \in 1..Len(s)}

\* the file of audio_path, the file of generateTempPath
\* (audio-converter.ts:206-210) and the files of generateChunkPath
\* (audio-converter.ts:215-219)
InputFile == [kind |-> "input", n |-> 0]

ConvertedFile == [kind |-> "converted", n |-> 0]

ChunkFile(k) == [kind |-> "chunk", n |-> k]

\* isWhisperCompatible, audio-converter.ts:198-201
isWhisperCompatible(ext) == ext \in {"wav", "flac"}

\* the output flag chosen by buildWhisperArgs, integration.ts:133-153
buildWhisperArgs(opts) ==
    IF opts.word_timestamps THEN "--output-json-full"
    ELSE CASE opts.output_format = "vtt" -> "--output-vtt"
           [] opts.output_format = "srt" -> "--output-srt"
           [] opts.output_format = "json" -> "--output-json"
           [] opts.output_format = "csv" -> "--output-csv"
           [] OTHER -> "--output-txt"

\* the texts of the entries of the JSON transcription joined with ''
RECURSIVE JoinedText(_, _)
JoinedText(entries, n) ==
    IF n = 0 THEN << >> ELSE JoinedText(entries, n - 1) \o entries[n].text

\* executeWhisper after a process that exited with 0, integration.ts:185-246:
\* proc is what the process wrote, the entries of its JSON transcription
\* (when the JSON parses) and its standard output
executeWhisper(flag, proc) ==
    IF flag \in {"--output-json", "--output-json-full"} /\ proc.jsonParses
    THEN [text        |-> Trim(JoinedText(proc.transcription,
                                         Len(proc.transcription))),
          hasSegments |-> TRUE,
          segments    |-> [k \in 1..Len(proc.transcription) |->
                              [start |-> proc.transcription[k].start,
                               end   |-> proc.transcription[k].end,
                               text  |-> Trim(proc.transcription[k].text)]],
          language    |-> "en"]
    ELSE [text        |-> proc.stdout,
          hasSegments |-> FALSE,
          segments    |-> << >>,
          language    |-> "en"]

\* WhisperIntegration.transcribe when nothing throws, integration.ts:32-59
transcribe(opts, proc) ==
    LET r == executeWhisper(buildWhisperArgs(opts), proc)
    IN  [text            |-> r.text,
         hasSegments     |-> r.hasSegments,
         segments        |-> r.segments,
         language        |-> r.language,
         model_used      |-> "base.en",
         processing_time |-> 1]

\* what whisper-cli writes for the chunk at position i: one entry that
\* covers the first time unit of the chunk, in a JSON that parses or not
WhisperProcesses(i) ==
    {[jsonParses    |-> b,
      transcription |-> << [start |-> 0, end |-> 1,
                            text |-> <<Words[(i % Len(Words)) + 1]>>] >>,
      stdout        |-> <<Words[(i % Len(Words)) + 1]>>] : b \in BOOLEAN}

\* preserveTimestamps as the handler computes it, part_000:169
PreserveTimestamps(a) ==
    a.word_timestamps \/ a.output_format = "vtt" \/ a.output_format = "srt"

\* the transcript with its times in milliseconds, the unit of the model of
\* formatTimestamp
InMilliseconds(res) ==
    [res EXCEPT !.segments =
        [k \in 1..Len(res.segments) |->
            [start |-> res.segments[k].start * 30000,
             end   |-> res.segments[k].end * 30000,
             text  |-> res.segments[k].text]]]

\* the cleanup loops of the handler, part_000:176-184 and 217-225
Cleanup == IF longArgs.auto_cleanup THEN fsUnlinked \cup Range(tempFiles)
           ELSE fsUnlinked

InitLong ==
    /\ pc = "checkFfmpeg"
    /\ longArgs \in [chunk_duration_seconds : MinChunkDuration..MaxChunkDuration,
                     overlap_seconds : 0..MaxOverlapSeconds,
                     auto_cleanup : BOOLEAN,
                     audio_ext : {"mp3", "wav"},
                     word_timestamps : BOOLEAN,
                     output_format : {"txt", "vtt", "srt"}]
    /\ audioDuration \in 1..MaxDuration
    /\ processedAudioPath = InputFile
    /\ tempFiles = << >>
    /\ audioChunks = << >>
    /\ chunkTranscriptions = << >>
    /\ assembledResult = EmptyResult
    /\ formattedOutput = << >>
    /\ splitStartTime = 0
    /\ splitChunkIndex = 0
    /\ outputPaths = << >>
    /\ ssArgs = << >>
    /\ fsWritten = {}
    /\ fsUnlinked = {}
    /\ IdleAlign
    /\ IdleLabel
    /\ IdleAsm
    /\ IdleStamp
    /\ IdleFormat
    /\ IdlePython

\* the catch block of the handler, part_000:215-228
Throw ==
    /\ pc' = "thrown"
    /\ fsUnlinked' = Cleanup

\* step 1, part_000:92-95
CheckFfmpegInstallation ==
    /\ pc = "checkFfmpeg"
    /\ \E ffmpegAvailable \in BOOLEAN :
          IF ffmpegAvailable THEN pc' = "getAudioInfo" /\ UNCHANGED fsUnlinked
          ELSE Throw
    /\ UNCHANGED <<longArgs, audioDuration, processedAudioPath, tempFiles,
                   audioChunks, chunkTranscriptions, assembledResult,
                   formattedOutput, splitStartTime, splitChunkIndex,
                   outputPaths, ssArgs, fsWritten>>
    /\ UNCHANGED <<alignVars, labelVars, asmVars, stampVars, fmtVars, pyVars>>

\* step 2, part_000:98 and audio-converter.ts:37-86
GetAudioInfo ==
    /\ pc = "getAudioInfo"
    /\ \E found \in BOOLEAN :
          IF found THEN pc' = "convert" /\ UNCHANGED fsUnlinked
          ELSE Throw
    /\ UNCHANGED <<longArgs, audioDuration, processedAudioPath, tempFiles,
                   audioChunks, chunkTranscriptions, assembledResult,
                   formattedOutput, splitStartTime, splitChunkIndex,
                   outputPaths, ssArgs, fsWritten>>
    /\ UNCHANGED <<alignVars, labelVars, asmVars, stampVars, fmtVars, pyVars>>

\* step 3, part_000:108-115 and audio-converter.ts:91-131
ConvertToWav ==
    /\ pc = "convert"
    /\ IF isWhisperCompatible(longArgs.audio_ext)
       THEN /\ pc' = "split"
            /\ UNCHANGED <<processedAudioPath, tempFiles, fsWritten, fsUnlinked>>
       ELSE \E exitCode \in {0, 1} :
               IF exitCode = 0
               THEN /\ fsWritten' = fsWritten \cup {ConvertedFile}
                    /\ processedAudioPath' = ConvertedFile
                    /\ tempFiles' = Append(tempFiles, ConvertedFile)
                    /\ pc' = "split"
                    /\ UNCHANGED fsUnlinked
               ELSE /\ Throw
                    /\ UNCHANGED <<processedAudioPath, tempFiles, fsWritten>>
    /\ UNCHANGED <<longArgs, audioDuration, audioChunks, chunkTranscriptions,
                   assembledResult, formattedOutput, splitStartTime,
                   splitChunkIndex, outputPaths, ssArgs>>
    /\ UNCHANGED <<alignVars, labelVars, asmVars, stampVars, fmtVars, pyVars>>

\* step 4 up to the loop of splitAudio, part_000:118-127 and
\* audio-converter.ts:141-156
SplitAudio ==
    /\ pc = "split"
    /\ IF audioDuration > longArgs.chunk_duration_seconds
       THEN /\ splitStartTime' = 0
            /\ splitChunkIndex' = 0
            /\ outputPaths' = << >>
            /\ pc' = "splitLoop"
            /\ UNCHANGED audioChunks
       ELSE /\ audioChunks' = <<processedAudioPath>>
            /\ pc' = "transcribe"
            /\ UNCHANGED <<splitStartTime, splitChunkIndex, outputPaths>>
    /\ UNCHANGED <<longArgs, audioDuration, processedAudioPath, tempFiles,
                   chunkTranscriptions, assembledResult, formattedOutput,
                   ssArgs, fsWritten, fsUnlinked>>
    /\ UNCHANGED <<alignVars, labelVars, asmVars, stampVars, fmtVars, pyVars>>

\* one iteration of the loop of splitAudio, audio-converter.ts:158-190
SplitChunk ==
    /\ pc = "splitLoop"
    /\ splitStartTime < audioDuration
    /\ splitChunkIndex < SplitCap
    /\ \E exitCode \in {0, 1} :
          IF exitCode = 0
          THEN /\ fsWritten' = fsWritten \cup {ChunkFile(splitChunkIndex)}
               /\ outputPaths' = Append(outputPaths, ChunkFile(splitChunkIndex))
               /\ ssArgs' = Append(ssArgs, splitStartTime)
               /\ splitStartTime' =
                     splitStartTime + longArgs.chunk_duration_seconds
                       - (IF splitChunkIndex > 0 THEN longArgs.overlap_seconds
                          ELSE 0)
               /\ splitChunkIndex' = splitChunkIndex + 1
               /\ UNCHANGED <<pc, fsUnlinked>>
          ELSE /\ Throw
               /\ UNCHANGED <<fsWritten, outputPaths, ssArgs, splitStartTime,
                              splitChunkIndex>>
    /\ UNCHANGED <<longArgs, audioDuration, processedAudioPath, tempFiles,
                   audioChunks, chunkTranscriptions, assembledResult,
                   formattedOutput>>
    /\ UNCHANGED <<alignVars, labelVars, asmVars, stampVars, fmtVars, pyVars>>

\* the return of splitAudio, audio-converter.ts:158 and 192, and
\* part_000:123-124
SplitReturn ==
    /\ pc = "splitLoop"
    /\ ~(splitStartTime < audioDuration)
    /\ audioChunks' = outputPaths
    /\ tempFiles' = tempFiles \o SelectSeq(outputPaths,
                                           LAMBDA f : f # processedAudioPath)
    /\ pc' = "transcribe"
    /\ UNCHANGED <<longArgs, audioDuration, processedAudioPath,
                   chunkTranscriptions, assembledResult, formattedOutput,
                   splitStartTime, splitChunkIndex, outputPaths, ssArgs,
                   fsWritten, fsUnlinked>>
    /\ UNCHANGED <<alignVars, labelVars, asmVars, stampVars, fmtVars, pyVars>>

\* one iteration of the loop of step 5, part_000:136-159
TranscribeChunk ==
    /\ pc = "transcribe"
    /\ Len(chunkTranscriptions) < Len(audioChunks)
    /\ LET i == Len(chunkTranscriptions)
           startOffset == i * longArgs.chunk_duration_seconds
                            - (IF i > 0 THEN longArgs.overlap_seconds ELSE 0)
       IN  \/ /\ Throw
              /\ UNCHANGED chunkTranscriptions
           \/ \E proc \in WhisperProcesses(i) :
                 /\ chunkTranscriptions' =
                       Append(chunkTranscriptions,
                              [chunkIndex  |-> i,
                               startOffset |-> startOffset,
                               result      |-> transcribe(longArgs, proc)])
                 /\ UNCHANGED <<pc, fsUnlinked>>
    /\ UNCHANGED <<longArgs, audioDuration, processedAudioPath, tempFiles,
                   audioChunks, assembledResult, formattedOutput,
                   splitStartTime, splitChunkIndex, outputPaths, ssArgs,
                   fsWritten>>
    /\ UNCHANGED <<alignVars, labelVars, asmVars, stampVars, fmtVars, pyVars>>

\* steps 6 to 9, part_000:166-213
AssembleAndReturn ==
    /\ pc = "transcribe"
    /\ Len(chunkTranscriptions) = Len(audioChunks)
    /\ LET res == assembleTranscriptions(
                      chunkTranscriptions,
                      [overlapSeconds          |-> longArgs.overlap_seconds,
                       removeOverlapDuplicates |-> TRUE,
                       preserveTimestamps      |-> PreserveTimestamps(longArgs)])
       IN  /\ assembledResult' = res
           /\ formattedOutput' = formatOutput(InMilliseconds(res),
                                              longArgs.output_format)
    /\ fsUnlinked' = Cleanup
    /\ pc' = "returned"
    /\ UNCHANGED <<longArgs, audioDuration, processedAudioPath, tempFiles,
                   audioChunks, chunkTranscriptions, splitStartTime,
                   splitChunkIndex, outputPaths, ssArgs, fsWritten>>
    /\ UNCHANGED <<alignVars, labelVars, asmVars, stampVars, fmtVars, pyVars>>

NextLong ==
    \/ CheckFfmpegInstallation
    \/ GetAudioInfo
    \/ ConvertToWav
    \/ SplitAudio
    \/ SplitChunk
    \/ SplitReturn
    \/ TranscribeChunk
    \/ AssembleAndReturn

SpecLong == InitLong /\ [][NextLong]_vars

\* every ffmpeg invocation of splitAudio returns: an iteration of its loop
\* that can be taken is taken, and so is its return
SpecLongFair == SpecLong /\ WF_vars(SplitChunk) /\ WF_vars(SplitReturn)

----------------------------------------------------------------------------
(* Properties of the aligner, checked under SpecAlign *)

\* the segments the aligner works on in the current state
CurrentSegments == TranscriptionSegments(transcription, diarization)

\* the length of the intersection of two intervals, as the specification
\* states it: max(0, min(ends) - max(starts))
Intersection(a, b) ==
    LET lo == IF a.start >= b.start THEN a.start ELSE b.start
        hi == IF a.end <= b.end THEN a.end ELSE b.end
    IN  IF hi - lo > 0 THEN hi - lo ELSE 0

\* the greatest intersection of a segment with a span of the diarization
BestIntersection(seg) ==
    IF diarization = << >> THEN 0
    ELSE LET i == CHOOSE k \in 1..Len(diarization) :
                      \A j \in 1..Len(diarization) :
                          Intersection(seg, diarization[j])
                              <= Intersection(seg, diarization[k])
         IN  Intersection(seg, diarization[i])

IsSentinelEntry(e) == e.speaker = UnknownSpeaker /\ e.confidence.num = 0

\* C1: every transcription segment produces exactly one entry of `aligned`
\* before the merge pass: the best span's normalized label with confidence
\* bestIntersection / duration when bestIntersection > overlapThreshold and
\* confidence >= confidenceThreshold, and the sentinel with confidence 0 in
\* every other case.
C1_OneEntryPerSegment ==
    pc = "done" =>
        /\ Len(aligned) = Len(CurrentSegments)
        /\ \A i \in 1..Len(aligned) :
              LET seg  == CurrentSegments[i]
                  best == BestIntersection(seg)
                  dur  == seg.end - seg.start
                  m    == BestMatch(seg, diarization, Len(diarization))
              IN  /\ aligned[i].text = seg.text
                  /\ IF /\ best > options.overlapThreshold
                        /\ RatLeq(options.confidenceThreshold, Ratio(best, dur))
                     THEN /\ RatEq(aligned[i].confidence, Ratio(best, dur))
                          /\ aligned[i].speaker =
                                 normalizeSpeakerLabel(diarization[m.best].speaker)
                     ELSE IsSentinelEntry(aligned[i])

\* C2: a transcription without segments (absent or empty list) yields at
\* least one output segment.
C2_PseudoSegmentIsOutput ==
    (pc = "done" /\ Len(transcription.segments) = 0) => Len(result) >= 1

\* C6: after the merge pass no two adjacent returned segments have the same
\* speaker label and a gap (next.start - previous.end) below mergeThreshold.
C6_NoMergeableNeighbours ==
    pc = "done" =>
        \A i \in 1..(Len(result) - 1) :
            ~(/\ result[i].speaker = result[i + 1].speaker
              /\ result[i + 1].start - result[i].end < options.mergeThreshold)

\* C6 witness: the merge pass merged two aligned segments
C6_Witness ==
    /\ pc = "done"
    /\ Len(aligned) = 2
    /\ Len(result) = 1
    /\ result[1].speaker # UnknownSpeaker

InUnitInterval(c) == c.den > 0 /\ 0 <= c.num /\ c.num <= c.den

\* C7: every segment, before and after the merge pass, has a confidence in
\* [0, 1].
C7_ConfidenceInUnitInterval ==
    pc = "done" =>
        /\ \A i \in 1..Len(aligned) : InUnitInterval(aligned[i].confidence)
        /\ \A i \in 1..Len(result) : InUnitInterval(result[i].confidence)

\* C7 witness: a span covers the first segment partly and the second one
\* entirely, and the merged segment keeps the smaller confidence
C7_Witness ==
    /\ pc = "done"
    /\ Len(aligned) = 2
    /\ aligned[1].confidence.num > 0
    /\ aligned[1].confidence.num < aligned[1].confidence.den
    /\ aligned[2].confidence.num = aligned[2].confidence.den
    /\ Len(result) = 1
    /\ result[1].confidence = aligned[1].confidence

\* the literal sentinel of the specification: "unknown speaker"
SpecSentinel ==
    <<"u", "n", "k", "n", "o", "w", "n", " ", "s", "p", "e", "a", "k", "e", "r">>

\* the literal of the source: "speaker_unknown"
SourceSentinel ==
    <<"s", "p", "e", "a", "k", "e", "r", "_", "u", "n", "k", "n", "o", "w", "n">>

TextWithin(word, text) == \E k \in 1..Len(text) : <<text[k]>> = word

\* C9: a transcription segment that no span intersects is output, by its
\* text, in a sentinel segment with confidence 0; with an empty diarization
\* list every returned segment is sentinel with confidence 0.
C9_NoMatchIsSentinel ==
    pc = "done" =>
        /\ \A i \in 1..Len(CurrentSegments) :
              BestIntersection(CurrentSegments[i]) = 0 =>
                  \E k \in 1..Len(result) :
                      /\ IsSentinelEntry(result[k])
                      /\ result[k].confidence = Zero
                      /\ TextWithin(CurrentSegments[i].text, result[k].text)
        /\ diarization = << >> =>
              /\ Len(result) >= 1
              /\ \A k \in 1..Len(result) :
                    IsSentinelEntry(result[k]) /\ result[k].confidence = Zero

\* C9 witness: a span exists, it misses the second segment and covers the
\* first
C9_Witness ==
    /\ pc = "done"
    /\ diarization # << >>
    /\ Len(CurrentSegments) = 2
    /\ BestIntersection(CurrentSegments[1]) > 0
    /\ BestIntersection(CurrentSegments[2]) = 0
    /\ Len(result) = 2
    /\ result[2].speaker = UnknownSpeaker

\* the segments the aligner works on are in ascending start order, none
\* ending before it starts
InputAscending ==
    /\ \A i \in 1..(Len(CurrentSegments) - 1) :
          CurrentSegments[i].start <= CurrentSegments[i + 1].start
    /\ \A i \in 1..Len(CurrentSegments) :
          CurrentSegments[i].start <= CurrentSegments[i].end

\* no two of them overlap: each ends before the next starts
InputDisjoint ==
    \A i \in 1..(Len(CurrentSegments) - 1) :
        CurrentSegments[i].end <= CurrentSegments[i + 1].start

OutputAscending ==
    \A i \in 1..(Len(result) - 1) : result[i].start <= result[i + 1].start

OutputDisjointPerSpeaker ==
    \A i \in 1..Len(result) : \A j \in (i + 1)..Len(result) :
        result[i].speaker = result[j].speaker =>
            Intersection(result[i], result[j]) = 0

\* C14 as stated: for transcription segments in ascending start order with
\* end >= start, the returned segments are in ascending start order and no
\* two of them with the same speaker label overlap in time.
C14_OrderedDisjointOutput ==
    (pc = "done" /\ InputAscending) =>
        (OutputAscending /\ OutputDisjointPerSpeaker)

\* C14 amended: the same for transcription segments that, besides, do not
\* overlap one another.
C14_DisjointInputOrderedDisjointOutput ==
    (pc = "done" /\ InputAscending /\ InputDisjoint) =>
        (OutputAscending /\ OutputDisjointPerSpeaker)

\* C14 witness: two segments that touch, under the same label, not merged
C14_Witness ==
    /\ pc = "done"
    /\ InputAscending
    /\ InputDisjoint
    /\ Len(result) = 2
    /\ result[1].speaker = result[2].speaker
    /\ result[1].start < result[2].start
    /\ result[1].end = result[2].start

\* C17: when the merge pass merges two adjacent aligned segments, the merged
\* segment keeps the start of the first, ends at the later of the two ends,
\* has the smaller of the two confidences and the two texts joined by one
\* space; the two are not merged when their labels differ or the gap
\* (next.start - current.end) is at least mergeThreshold.
C17_MergedPair ==
    (pc = "done" /\ Len(aligned) = 2) =>
        LET current == aligned[1]
            next    == aligned[2]
        IN  IF /\ current.speaker = next.speaker
               /\ next.start - current.end < options.mergeThreshold
            THEN /\ Len(result) = 1
                 /\ result[1].speaker = current.speaker
                 /\ result[1].start = current.start
                 /\ result[1].end = (IF current.end >= next.end
                                     THEN current.end ELSE next.end)
                 /\ result[1].confidence =
                        (IF RatLeq(current.confidence, next.confidence)
                         THEN current.confidence ELSE next.confidence)
                 /\ result[1].text = current.text \o <<" ">> \o next.text
            ELSE result = aligned

\* the transcription segment an entry of `aligned` was made from: segments
\* of one transcription carry different texts
SegmentOf(e) ==
    CHOOSE s \in {CurrentSegments[i] : i \in 1..Len(CurrentSegments)} :
        s.text = e.text

\* the first span of the list whose intersection with seg is the greatest
FirstGreatest(seg) ==
    CHOOSE k \in 1..Len(diarization) :
        /\ Intersection(seg, diarization[k]) = BestIntersection(seg)
        /\ \A j \in 1..(k - 1) :
              Intersection(seg, diarization[j]) < BestIntersection(seg)

\* the label of a raw id that ends in two digits
TwoDigitLabel(raw) == SpeakerPrefix \o SubSeq(raw, Len(raw) - 1, Len(raw))

\* C18: a labelled entry carries the label of the span whose intersection
\* with the segment (0 when they do not meet) is the greatest over all the
\* spans, the first of them in list order when several are equal, and the
\* confidence intersection / duration; for the segment [0,10] and the spans
\* [0,4] SPEAKER_00, [4,10] SPEAKER_01 this is speaker01 with 6 s and 0.6.
C18_GreatestIntersectionFirstWins ==
    pc = "done" =>
        /\ \A i \in 1..Len(aligned) :
              aligned[i].speaker # UnknownSpeaker =>
                  LET seg == SegmentOf(aligned[i])
                  IN  /\ BestIntersection(seg) > 0
                      /\ aligned[i].speaker =
                             TwoDigitLabel(diarization[FirstGreatest(seg)].speaker)
                      /\ RatEq(aligned[i].confidence,
                               Ratio(BestIntersection(seg), seg.end - seg.start))
        /\ (transcription = TenSecondTranscription
                /\ diarization = TwoSpeakerDiarization) =>
              /\ Len(aligned) = 1
              /\ BestIntersection(CurrentSegments[1]) = 60
              /\ aligned[1].speaker = SpeakerPrefix \o <<"0", "1">>
              /\ RatEq(aligned[1].confidence, Ratio(6, 10))

\* C18 witness: two spans of different speakers share the segment half and
\* half, the second listed first in time, and the first in the list wins
C18_Witness ==
    /\ pc = "done"
    /\ Len(CurrentSegments) = 1
    /\ Len(diarization) = 2
    /\ diarization[1].speaker # diarization[2].speaker
    /\ diarization[1].start > diarization[2].start
    /\ Intersection(CurrentSegments[1], diarization[1]) > 0
    /\ Intersection(CurrentSegments[1], diarization[1])
           = Intersection(CurrentSegments[1], diarization[2])
    /\ Len(aligned) = 1
    /\ aligned[1].speaker = TwoDigitLabel(diarization[1].speaker)

\* C24: for a transcription without segments the loop runs over a single
\* pseudo-segment from 0 to max(20 s, the greatest end of a span) that
\* carries the whole text; with no span it is [0, 20 s].
C24_PseudoSegmentSpan ==
    (pc = "done" /\ Len(transcription.segments) = 0) =>
        /\ Len(transcriptionSegments) = 1
        /\ transcriptionSegments[1].start = 0
        /\ transcriptionSegments[1].text = transcription.text
        /\ LET end == transcriptionSegments[1].end
           IN  /\ end >= 200
               /\ \A j \in 1..Len(diarization) : end >= diarization[j].end
               /\ end = 200 \/ \E j \in 1..Len(diarization) : end = diarization[j].end
        /\ diarization = << >> => transcriptionSegments[1].end = 200

\* C24 witness: the first of two spans ends after 20 s and after the second
C24_Witness ==
    /\ pc = "done"
    /\ Len(transcription.segments) = 0
    /\ Len(diarization) = 2
    /\ diarization[1].end > 200
    /\ diarization[2].end < diarization[1].end
    /\ transcriptionSegments[1].end = diarization[1].end

----------------------------------------------------------------------------
(* Properties of normalizeSpeakerLabel, checked under SpecLabel *)

HasDigit(label) == \E i \in 1..Len(label) : IsDigit(label[i])

\* [i, e] is the first maximal run of digits of label
IsFirstRun(label, i, e) ==
    /\ i <= e
    /\ \A j \in 1..(i - 1) : ~IsDigit(label[j])
    /\ \A j \in i..e : IsDigit(label[j])
    /\ e = Len(label) \/ ~IsDigit(label[e + 1])

RECURSIVE Pow10(_)
Pow10(k) == IF k = 0 THEN 1 ELSE 10 * Pow10(k - 1)

\* the decimal value of the digits label[i..e]
RECURSIVE RunValue(_, _, _)
RunValue(label, i, e) ==
    IF i > e THEN 0
    ELSE DigitValue(label[i]) * Pow10(e - i) + RunValue(label, i + 1, e)

\* C10: for a raw id with a digit the label is "speaker" followed by the
\* decimal value of the first maximal run of digits, zero-padded to two
\* digits; later runs do not matter.
C10_FirstDigitRun ==
    (pc = "done" /\ HasDigit(rawLabel)) =>
        \E i \in 1..Len(rawLabel) : \E e \in i..Len(rawLabel) :
            /\ IsFirstRun(rawLabel, i, e)
            /\ LET n      == Len(normLabel)
                   p      == Len(SpeakerPrefix)
                   number == SubSeq(normLabel, p + 1, n)
               IN  /\ n >= p + 2
                   /\ SubSeq(normLabel, 1, p) = <<"s", "p", "e", "a", "k", "e", "r">>
                   /\ \A j \in 1..Len(number) : IsDigit(number[j])
                   /\ RunValue(number, 1, Len(number)) = RunValue(rawLabel, i, e)
                   /\ Len(number) > 2 => number[1] # "0"

\* C10 witness: a run with a leading zero, after a letter and before a
\* second run
C10_Witness ==
    /\ pc = "done"
    /\ rawLabel = <<"S", "0", "7", "_">> \/ rawLabel = <<"0", "7", "_", "1">>
    /\ normLabel = SpeakerPrefix \o <<"0", "7">>

\* The accumulator as four bytes, least significant first, and one round
\* of the hash as the source writes it: shift left by five, subtract the
\* accumulator, add the character code, keep 32 bits.
ShiftLeft5(b) ==
    [i \in 1..4 |->
        ((b[i] * 32) % 256) + (IF i = 1 THEN 0 ELSE (b[i - 1] * 32) \div 256)]

\* a - b + code on four bytes, with borrow and carry, modulo 2^32
RECURSIVE SubAdd(_, _, _, _)
SubAdd(a, b, carry, i) ==
    IF i > 4 THEN << >>
    ELSE LET v == a[i] - b[i] + carry
         IN  <<v % 256>> \o SubAdd(a, b, v \div 256, i + 1)

RECURSIVE ByteHash(_)
ByteHash(str) ==
    IF str = << >> THEN <<0, 0, 0, 0>>
    ELSE LET h == ByteHash(SubSeq(str, 1, Len(str) - 1))
         IN  SubAdd(ShiftLeft5(h), h, CharCode(str[Len(str)]), 1)

ByteHashNegative(b) == b[4] >= 128

\* the last decimal digit of the bit pattern: 256^k ends in 6 for k >= 1
ByteHashLastDigit(b) == (b[1] + 6 * (b[2] + b[3] + b[4])) % 10

\* |hash| mod 10: 2^32 ends in 6
AbsHashMod10(str) ==
    LET b == ByteHash(str)
    IN  IF ByteHashNegative(b) THEN (16 - ByteHashLastDigit(b)) % 10
        ELSE ByteHashLastDigit(b)

TenLabels ==
    { SpeakerPrefix \o <<"0", "1">>, SpeakerPrefix \o <<"0", "2">>,
      SpeakerPrefix \o <<"0", "3">>, SpeakerPrefix \o <<"0", "4">>,
      SpeakerPrefix \o <<"0", "5">>, SpeakerPrefix \o <<"0", "6">>,
      SpeakerPrefix \o <<"0", "7">>, SpeakerPrefix \o <<"0", "8">>,
      SpeakerPrefix \o <<"0", "9">>, SpeakerPrefix \o <<"1", "0">> }

\* C11: for a raw id without a digit, of any length, the label is one of
\* speaker01 .. speaker10, namely the two-digit form of (|hash| mod 10) + 1
\* where hash is the 32-bit wrapped accumulator, negative or not.
C11_HashLabelInRange ==
    (pc = "done" /\ ~HasDigit(rawLabel)) =>
        /\ normLabel \in TenLabels
        /\ LET k == AbsHashMod10(rawLabel) + 1
           IN  normLabel =
                   SpeakerPrefix \o <<Digits[(k \div 10) + 1], Digits[(k % 10) + 1]>>

\* C11 witness: an id whose accumulator wrapped to a negative value, and
\* the label speaker10
C11_Witness ==
    /\ pc = "done"
    /\ ~HasDigit(rawLabel)
    /\ Len(rawLabel) > MaxLabelLen
    /\ ByteHashNegative(ByteHash(rawLabel))
    /\ normLabel = SpeakerPrefix \o <<"1", "0">>

----------------------------------------------------------------------------
(* Properties of the assembler, checked under SpecAsm *)

\* the cutoff of loop iteration i: the end of the last segment assembled
\* before it, less overlapSeconds
Cutoff(i) ==
    asmSteps[i].existing[Len(asmSteps[i].existing)].end - asmOptions.overlapSeconds

\* every segment iteration i appended starts at or after the cutoff
AppendedFromCutoff(i) ==
    \A k \in 1..Len(asmSteps[i].added) : asmSteps[i].added[k].start >= Cutoff(i)

\* the segment list of the chunk of iteration i is in ascending start order
AscendingStarts(i) ==
    LET segs == chunks[i].result.segments
    IN  \A k \in 1..(Len(segs) - 1) : segs[k].start <= segs[k + 1].start

\* C3 as stated: with removeOverlapDuplicates, for every chunk after the
\* first and every segment list it carries, every segment appended from it
\* has translated start >= cutoff.
C3_AppendedStartsAtLeastCutoff ==
    (pc = "done" /\ asmOptions.removeOverlapDuplicates) =>
        \A i \in 2..Len(asmSteps) :
            asmSteps[i].existing # << >> => AppendedFromCutoff(i)

\* C3 amended: the same for every chunk after the first whose segment list
\* is in ascending start order.
C3_SortedAppendedStartsAtLeastCutoff ==
    (pc = "done" /\ asmOptions.removeOverlapDuplicates) =>
        \A i \in 2..Len(asmSteps) :
            (asmSteps[i].existing # << >> /\ AscendingStarts(i)) =>
                AppendedFromCutoff(i)

\* C3 witness: a sorted second chunk lost its first segment to the cutoff
\* and kept its second
C3_Witness ==
    /\ pc = "done"
    /\ asmOptions.removeOverlapDuplicates
    /\ Len(asmSteps) >= 2
    /\ asmSteps[2].existing # << >>
    /\ AscendingStarts(2)
    /\ Len(chunks[2].result.segments) = 2
    /\ Len(asmSteps[2].added) = 1

\* C4: a list of exactly one chunk returns that chunk's result unchanged.
C4_SingleChunkIdentity ==
    (pc = "done" /\ Len(chunks) = 1) => assembled = chunks[1].result

\* C4 witness: one chunk with a segment, a start offset and options that
\* would change it in the loop
C4_Witness ==
    /\ pc = "done"
    /\ Len(chunks) = 1
    /\ chunks[1].startOffset > 0
    /\ Len(chunks[1].result.segments) > 0
    /\ ~asmOptions.preserveTimestamps
    /\ assembled.hasSegments

\* the segments of the chunk of iteration i, moved by its startOffset
Translated(i) ==
    [k \in 1..Len(chunks[i].result.segments) |->
        [start |-> chunks[i].result.segments[k].start + chunks[i].startOffset,
         end   |-> chunks[i].result.segments[k].end + chunks[i].startOffset,
         text  |-> chunks[i].result.segments[k].text]]

\* the k-th translated segment of iteration i is among those it appended,
\* in its place from the end, and so in the assembled list
Kept(i, k) ==
    LET dropped == Len(Translated(i)) - Len(asmSteps[i].added)
    IN  /\ k > dropped
        /\ asmSteps[i].added[k - dropped] = Translated(i)[k]
        /\ assembled.segments[Len(asmSteps[i].existing) + k - dropped]
               = Translated(i)[k]

C20_ShiftedByStartOffset ==
    (pc = "done" /\ asmOptions.preserveTimestamps /\ Len(chunks) >= 2) =>
        /\ \A i \in 2..Len(asmSteps) : \A j \in 1..Len(asmSteps[i].added) :
              LET out == assembled.segments[Len(asmSteps[i].existing) + j]
              IN  /\ out = asmSteps[i].added[j]
                  /\ \E k \in 1..Len(chunks[i].result.segments) :
                        LET src == chunks[i].result.segments[k]
                        IN  /\ out.start = src.start + chunks[i].startOffset
                            /\ out.end = src.end + chunks[i].startOffset
                            /\ out.text = src.text
                            /\ out.end - out.start = src.end - src.start
        /\ \A n \in 1..Len(assembled.segments) :
              assembled.segments[n].end >= assembled.segments[n].start

\* C20 witness: a segment of a second chunk that starts later than the first
C20_Witness ==
    /\ pc = "done"
    /\ asmOptions.preserveTimestamps
    /\ Len(asmSteps) >= 2
    /\ chunks[2].startOffset > 0
    /\ asmSteps[2].existing # << >>
    /\ asmSteps[2].added # << >>
    /\ asmSteps[2].added[1].start >= chunks[2].startOffset

\* the rearrangements of a list
Rearrangements(l) ==
    {[i \in 1..Len(l) |-> l[p[i]]] :
        p \in {q \in [1..Len(l) -> 1..Len(l)] :
                  \A i, j \in 1..Len(l) : q[i] = q[j] => i = j}}

DistinctIndices(l) ==
    \A i, j \in 1..Len(l) : l[i].chunkIndex = l[j].chunkIndex => i = j

\* position k of the processing order holds the caller's chunk order[k]:
\* ascending chunkIndex, equal indices in the caller's order
IsStableOrder(order, l) ==
    /\ \A i, j \in 1..Len(l) : order[i] = order[j] => i = j
    /\ \A k \in 1..(Len(l) - 1) :
          \/ l[order[k]].chunkIndex < l[order[k + 1]].chunkIndex
          \/ /\ l[order[k]].chunkIndex = l[order[k + 1]].chunkIndex
             /\ order[k] < order[k + 1]

\* the texts of l, one word each, in the given order with a space between
RECURSIVE WordsInOrder(_, _, _)
WordsInOrder(l, order, n) ==
    IF n = 0 THEN << >>
    ELSE (IF n = 1 THEN << >> ELSE WordsInOrder(l, order, n - 1) \o <<" ">>)
         \o l[order[n]].result.text

\* C21: for two or more chunks the result does not depend on the order of
\* the caller's list: every rearrangement of a list with distinct
\* chunkIndex values gives the same text, segments, language, model and
\* processing time; language and model are those of the chunk of lowest
\* chunkIndex; chunks of equal chunkIndex are processed in input order.
C21_OrderIndependent ==
    (pc = "done" /\ Len(callerChunks) >= 2) =>
        /\ DistinctIndices(callerChunks) =>
              \A l \in Rearrangements(callerChunks) :
                  assembleTranscriptions(l, asmOptions) = assembled
        /\ \E order \in [1..Len(callerChunks) -> 1..Len(callerChunks)] :
              /\ IsStableOrder(order, callerChunks)
              /\ assembled.language = callerChunks[order[1]].result.language
              /\ assembled.model_used = callerChunks[order[1]].result.model_used
              /\ (\A i \in 1..Len(callerChunks) :
                     Len(callerChunks[i].result.text) = 1
                        /\ ~IsSpace(callerChunks[i].result.text[1])) =>
                    assembled.text
                        = WordsInOrder(callerChunks, order, Len(callerChunks))

\* C21 witness: the caller's list has the higher index first
C21_Witness ==
    /\ pc = "done"
    /\ Len(callerChunks) = 2
    /\ callerChunks[1].chunkIndex > callerChunks[2].chunkIndex
    /\ assembled.text = <<"w2", " ", "w1">>
    /\ assembled.language = Undefined

\* C22: when the text of a chunk after the first is appended to non-empty
\* running text, exactly one space comes between them when the running
\* text does not end with a whitespace character and the chunk text does
\* not begin with one, and nothing comes between them otherwise.
C22_OneSpaceUnlessWhitespace ==
    pc = "done" =>
        \A i \in 2..Len(asmSteps) :
            LET before == asmSteps[i].textBefore
                text   == asmSteps[i].chunkText
            IN  (before # << >> /\ text # << >>) =>
                    /\ asmSteps[i].textAdded =
                           (IF ~IsSpace(before[Len(before)]) /\ ~IsSpace(text[1])
                            THEN <<" ">> ELSE << >>) \o text
                    /\ i = Len(asmSteps) =>
                           assembled.text = Trim(before \o asmSteps[i].textAdded)

\* the text without its first n lines
WithoutLeadingLines(text, n) ==
    LET lines == SplitLines(text)
    IN  JoinLines(SubSeq(lines, n + 1, Len(lines)))

\* C23: with removeOverlapDuplicates the text a chunk after the first
\* contributes is its text without its leading N lines, N = min(2,
\* floor(0.1 * lineCount)) for lineCount the number of lines of the text,
\* every other line unchanged; the first chunk contributes its whole text.
C23_LeadingLinesStripped ==
    (pc = "done" /\ asmOptions.removeOverlapDuplicates) =>
        \A i \in 1..Len(asmSteps) :
            LET text      == chunks[i].result.text
                lineCount == Len(SplitLines(text))
                N         == IF lineCount \div 10 < 2 THEN lineCount \div 10 ELSE 2
            IN  asmSteps[i].chunkText =
                    (IF i = 1 THEN text ELSE WithoutLeadingLines(text, N))

\* C12: a call with two or more chunks leaves the caller's chunk list as it
\* was: the same elements in the same order, every chunk's result unmodified.
C12_CallerListUnchanged ==
    [][(pc = "ready" /\ Len(chunks) >= 2) => chunks' = chunks]_vars

\* C5: an empty chunk list returns a transcript with empty text, processing
\* time 0 and no segments, for every option combination, without an error.
C5_EmptyInputEmptyTranscript ==
    (pc = "done" /\ Len(chunks) = 0) =>
        /\ assembled.text = << >>
        /\ assembled.processing_time = 0
        /\ ~assembled.hasSegments
        /\ assembled.segments = << >>

\* C5 witness: the empty list assembled with overlap removal and timestamps
C5_Witness ==
    /\ pc = "done"
    /\ Len(chunks) = 0
    /\ asmOptions.removeOverlapDuplicates
    /\ asmOptions.preserveTimestamps
    /\ assembled.model_used = "base.en"

----------------------------------------------------------------------------
(* Properties of formatTimestamp, checked under SpecStamp *)

AllDigits(s) == \A i \in 1..Len(s) : IsDigit(s[i])

\* out reads H..H:MM:SS<sep>mmm, with two or more digits of hours, and the
\* fields, taken as decimal numbers, add up to the time t (in ms) with
\* MM < 60, SS < 60: so H..H = floor(t / 3600), MM = floor((t mod 3600) / 60),
\* SS = floor(t mod 60), mmm = floor of the milliseconds, none rounded up
ReadsAsClock(out, t, sep) ==
    LET n  == Len(out)
        hh == SubSeq(out, 1, n - 10)
        mm == SubSeq(out, n - 8, n - 7)
        ss == SubSeq(out, n - 5, n - 4)
        ms == SubSeq(out, n - 2, n)
    IN  /\ n >= 12
        /\ out[n - 9] = ":" /\ out[n - 6] = ":" /\ out[n - 3] = sep
        /\ AllDigits(hh) /\ AllDigits(mm) /\ AllDigits(ss) /\ AllDigits(ms)
        /\ RunValue(mm, 1, 2) < 60
        /\ RunValue(ss, 1, 2) < 60
        /\ RunValue(hh, 1, Len(hh)) * 3600000 + RunValue(mm, 1, 2) * 60000
              + RunValue(ss, 1, 2) * 1000 + RunValue(ms, 1, 3) = t
        /\ Len(hh) > 2 => hh[1] # "0"

Separator == IF tsSRT THEN "," ELSE "."

\* C15 as stated: for every non-negative time both copies of
\* formatTimestamp return the fixed-width string HH:MM:SS<sep>mmm (twelve
\* characters) of the floors of hours, minutes, seconds and milliseconds,
\* with '.' for VTT and ',' for SRT.
C15_FixedWidthClock ==
    pc = "done" =>
        /\ ReadsAsClock(tsOut, tsSeconds, Separator) /\ Len(tsOut) = 12
        /\ ReadsAsClock(tsOutAlign, tsSeconds, Separator) /\ Len(tsOutAlign) = 12

\* C15 amended: the same with the hours zero-padded to at least two digits:
\* the string has twelve characters for a time below 100 h and one more
\* for each further digit of the hours.
C15_ClockPaddedHours ==
    pc = "done" =>
        /\ ReadsAsClock(tsOut, tsSeconds, Separator)
        /\ ReadsAsClock(tsOutAlign, tsSeconds, Separator)
        /\ tsSeconds < 100 * 3600000 => (Len(tsOut) = 12 /\ Len(tsOutAlign) = 12)
        /\ tsSeconds >= 100 * 3600000 => (Len(tsOut) > 12 /\ Len(tsOutAlign) > 12)

\* C15 witness: 1 h 59 min 59.999 s in the SRT convention
C15_Witness ==
    /\ pc = "done"
    /\ tsSRT
    /\ tsSeconds = 3600000 + 59 * 60000 + 59 * 1000 + 999
    /\ tsOut = <<"0", "1", ":", "5", "9", ":", "5", "9", ",", "9", "9", "9">>
    /\ tsOutAlign = tsOut

----------------------------------------------------------------------------
(* Properties of formatOutput, checked under SpecFormat *)

NoSegments(res) == ~res.hasSegments \/ Len(res.segments) = 0

\* lines reads, from line `first` on, as one cue per segment: the number
\* of the segment counted from 1, the two timestamps around the arrow, the
\* text of the segment and an empty line; nothing follows the last cue
OneCuePerSegment(lines, first, segments, useSRTFormat) ==
    /\ Len(lines) = first + 4 * Len(segments)
    /\ lines[Len(lines)] = << >>
    /\ \A i \in 1..Len(segments) :
          LET k == first + 4 * (i - 1)
          IN  /\ lines[k] = <<Digits[i + 1]>>
              /\ lines[k + 1] = formatTimestamp(segments[i].start, useSRTFormat)
                                  \o <<" ", "-", "-", ">", " ">>
                                  \o formatTimestamp(segments[i].end, useSRTFormat)
              /\ lines[k + 2] = segments[i].text
              /\ lines[k + 3] = << >>

\* C16: for vtt and srt a transcript with segments is rendered as exactly
\* one cue per segment, numbered from 1 in segment order (after the WEBVTT
\* header and an empty line for vtt); a transcript without segments, the
\* list absent or empty, is rendered as the header followed by the text for
\* vtt and as the text for srt; txt returns the text verbatim.
C16_OneCuePerSegment ==
    pc = "done" =>
        LET lines == SplitLines(fmtOutput)
        IN  /\ (fmtFormat = "vtt" /\ ~NoSegments(fmtResult)) =>
                  /\ lines[1] = <<"W", "E", "B", "V", "T", "T">>
                  /\ lines[2] = << >>
                  /\ OneCuePerSegment(lines, 3, fmtResult.segments, FALSE)
            /\ (fmtFormat = "srt" /\ ~NoSegments(fmtResult)) =>
                  OneCuePerSegment(lines, 1, fmtResult.segments, TRUE)
            /\ (fmtFormat = "vtt" /\ NoSegments(fmtResult)) =>
                  fmtOutput = <<"W", "E", "B", "V", "T", "T", NL, NL>> \o fmtResult.text
            /\ (fmtFormat = "srt" /\ NoSegments(fmtResult)) =>
                  fmtOutput = fmtResult.text
            /\ fmtFormat = "txt" => fmtOutput = fmtResult.text

\* C16 witness: a transcript of two segments rendered as vtt
C16_Witness ==
    /\ pc = "done"
    /\ fmtFormat = "vtt"
    /\ Len(fmtResult.segments) = 2
    /\ fmtResult.segments[1].start < fmtResult.segments[2].start
    /\ Len(SplitLines(fmtOutput)) = 11

\* the segment list of every chunk is ascending by start and disjoint
ChunkListsOrdered ==
    \A i \in 1..Len(callerChunks) :
        LET s == callerChunks[i].result.segments
        IN  /\ callerChunks[i].result.hasSegments
            /\ \A k \in 1..Len(s) : s[k].end >= s[k].start
            /\ \A k \in 1..(Len(s) - 1) : s[k].end <= s[k + 1].start

\* the chunks come with strictly increasing startOffsets
OffsetsIncreasing ==
    \A i \in 1..(Len(chunks) - 1) :
        chunks[i].startOffset < chunks[i + 1].startOffset

AssembledAscending ==
    \A n \in 1..(Len(assembled.segments) - 1) :
        assembled.segments[n].start <= assembled.segments[n + 1].start

\* C30: when the segment list of every chunk is ascending and disjoint and
\* the chunks have strictly increasing startOffsets, the list assembled
\* with removeOverlapDuplicates and preserveTimestamps has non-decreasing
\* start times, whatever overlapSeconds is.
C30_AssembledStartsAscending ==
    (pc = "done" /\ asmOptions.removeOverlapDuplicates
                 /\ asmOptions.preserveTimestamps
                 /\ Len(chunks) >= 2
                 /\ ChunkListsOrdered /\ OffsetsIncreasing) =>
        AssembledAscending

----------------------------------------------------------------------------
(* DiarizationPythonManager: isAvailable, then the initialize of            *)
(* runDiarization, in an environment that does not change between the two   *)

\* the path findPythonExecutable tries first, audio-converter.ts:326
KNOWN_WORKING_PYTHON == "/opt/miniconda3/bin/python3"

\* audio-converter.ts:409-415
pythonCandidates ==
    <<"/opt/miniconda3/bin/python3", "python3", "python", "/usr/bin/python3",
      "/opt/homebrew/bin/python3">>

\* audio-converter.ts:349
candidates == <<"python3", "/opt/homebrew/bin/python3", "/usr/bin/python3">>

\* a value of PYTHON_EXECUTABLE that is none of the paths above
CustomPython == "/custom/bin/python3"

Executables == Range(pythonCandidates) \cup {CustomPython}

\* the first executable of the list for which `--version` exits with 0,
\* Undefined when there is none
FirstWorking(list, works) ==
    IF \E i \in 1..Len(list) : list[i] \in works
    THEN list[CHOOSE i \in 1..Len(list) :
                  /\ list[i] \in works
                  /\ \A j \in 1..(i - 1) : list[j] \notin works]
    ELSE Undefined

\* checkPythonAvailability, audio-converter.ts:408-438
checkPythonAvailability(works) == FirstWorking(pythonCandidates, works)

\* isAvailable, audio-converter.ts:300-322
isAvailable(works, packages) ==
    LET executable == checkPythonAvailability(works)
    IN  executable # Undefined /\ executable \in packages

\* findPythonExecutable, audio-converter.ts:324-362; Undefined when it throws
findPythonExecutable(works, envExecutable) ==
    FirstWorking(<<KNOWN_WORKING_PYTHON>>
                    \o (IF envExecutable # Undefined THEN <<envExecutable>>
                        ELSE << >>)
                    \o candidates,
                 works)

InitPython ==
    /\ pc = "start"
    /\ pyWorks \in SUBSET Executables
    /\ pyPackages \in SUBSET pyWorks
    /\ envPythonExecutable \in {Undefined, CustomPython, "python"}
    /\ diarizationAvailable = FALSE
    /\ pythonExecutable = Undefined
    /\ initialized = FALSE
    /\ setupError = FALSE
    /\ IdleAlign
    /\ IdleLabel
    /\ IdleAsm
    /\ IdleStamp
    /\ IdleFormat
    /\ IdleLong

\* step 2 of the diarization tool, health-check.ts:381-387
IsAvailable ==
    /\ pc = "start"
    /\ diarizationAvailable' = isAvailable(pyWorks, pyPackages)
    /\ pc' = IF diarizationAvailable' THEN "available" ELSE "thrown"
    /\ UNCHANGED <<pyWorks, pyPackages, envPythonExecutable, pythonExecutable,
                   initialized, setupError>>
    /\ UNCHANGED <<alignVars, labelVars, asmVars, stampVars, fmtVars, longVars>>

\* the initialize of runDiarization, audio-converter.ts:517-520 and 272-298
Initialize ==
    /\ pc = "available"
    /\ LET found == findPythonExecutable(pyWorks, envPythonExecutable)
       IN  /\ pythonExecutable' = found
           /\ initialized' = (found # Undefined /\ found \in pyPackages)
           /\ setupError' = ~(found # Undefined /\ found \in pyPackages)
    /\ pc' = "initialized"
    /\ UNCHANGED <<pyWorks, pyPackages, envPythonExecutable,
                   diarizationAvailable>>
    /\ UNCHANGED <<alignVars, labelVars, asmVars, stampVars, fmtVars, longVars>>

NextPython == IsAvailable \/ Initialize

SpecPython == InitPython /\ [][NextPython]_vars

----------------------------------------------------------------------------
(* Properties of DiarizationPythonManager, checked under SpecPython *)

\* C28: whenever isAvailable has returned true, the initialize that
\* runDiarization performs next selects an executable that passes the
\* package check and does not fail with SETUP_ERROR, whichever candidates
\* work and whether PYTHON_EXECUTABLE is set or not.
C28_AvailableThenInitialized ==
    (pc = "initialized" /\ diarizationAvailable) =>
        /\ ~setupError
        /\ pythonExecutable \in pyPackages

----------------------------------------------------------------------------
(* Properties of transcribe_long, checked under SpecLong and SpecLongFair *)

\* C25: splitAudio terminates for every chunk duration and overlap the
\* schema of transcribe_long accepts and every audio longer than a chunk:
\* once in its loop, the call leaves it (by returning, or by throwing when
\* ffmpeg fails), every ffmpeg invocation returning.
C25_SplitAudioTerminates ==
    (pc = "splitLoop") ~> (pc # "splitLoop")

\* C26: the startOffset the handler attaches to chunk i is the position in
\* the source audio at which splitAudio started to cut chunk i.
C26_OffsetIsCutPosition ==
    \A k \in 1..Len(chunkTranscriptions) :
        Len(audioChunks) >= 2 =>
            chunkTranscriptions[k].startOffset = ssArgs[k]

\* C27: with auto_cleanup, when the handler has returned or thrown, unlink
\* has been called on every file the call wrote: the converted WAV and every
\* chunk file of splitAudio.
C27_EveryTempFileUnlinked ==
    (pc \in {"returned", "thrown"} /\ longArgs.auto_cleanup) =>
        fsWritten \subseteq fsUnlinked

\* C29: whenever the handler calls the assembler with preserveTimestamps
\* true, every chunk result carries a segment list, the assembled transcript
\* has segments and formatOutput renders one cue per segment.
C29_TimestampsHaveSegments ==
    (pc = "returned" /\ PreserveTimestamps(longArgs)) =>
        /\ \A k \in 1..Len(chunkTranscriptions) :
              chunkTranscriptions[k].result.hasSegments
        /\ assembledResult.hasSegments
        /\ LET lines == SplitLines(formattedOutput)
               segs == InMilliseconds(assembledResult).segments
           IN  /\ longArgs.output_format = "vtt" =>
                     OneCuePerSegment(lines, 3, segs, FALSE)
               /\ longArgs.output_format = "srt" =>
                     OneCuePerSegment(lines, 1, segs, TRUE)

====
